---- MODULE Spec2Model ----
(***************************************************************************)
(* Model of the finance tracker: the record store (js/database.js, the     *)
(* Database class over IndexedDB with its transaction and category         *)
(* collections), the calendar, the view controller and the start of the    *)
(* application (js/ui.js), and the service worker that caches the assets.  *)
(*                                                                         *)
(* Records are functions from field names to values, so that an absent     *)
(* field is a name outside the record's DOMAIN, as in a JavaScript object. *)
(* Dates and timestamps are ISO strings in the program; they are modelled  *)
(* by integers with the same order (0 is the empty string, which is        *)
(* falsy; a real timestamp is >= 1).                                       *)
(***************************************************************************)
EXTENDS Integers, Sequences, FiniteSets, TLC

VARIABLES
    db,            \* this.db: FALSE is null, TRUE is the open connection
    version,       \* version of the schema held by the browser's storage
    stores,        \* object store name -> set of its index names
    transactions,  \* the 'transactions' object store: key (id) -> record
    categories,    \* the 'categories' object store: key (id) -> record
    clock,         \* the system clock, read by new Date()
    genCount,      \* how many ids generateId() has produced
    call,          \* the last operation invoked, with its arguments
    outcome,       \* how its promise settled
    pending,       \* store operations between two of their requests
    ui,            \* the UI object, the form fields it reads, and App.init's position
    calendar,      \* the Calendar instances listening on the month controls
    worker         \* the service worker: its cache, the network, its last answer

\* what the Database operations read and write
dbVars == <<db, version, stores, transactions, categories, clock, genCount, call, outcome>>

\* what they leave alone
appVars == <<pending, ui, calendar, worker>>

vars == <<db, version, stores, transactions, categories, clock, genCount, call, outcome,
          pending, ui, calendar, worker>>

(***************************************************************************)
(* Bounds of the model.                                                    *)
(***************************************************************************)
MaxClock == 2
MaxGen == 1
MaxImport == 3
MaxMonth == 3
MaxCalendars == 2
MaxTasks == 1

(***************************************************************************)
(* Program constants.                                                      *)
(***************************************************************************)
DbVersion == 2
MaxNameLength == 50
StoreName == "transactions"
CategoriesStore == "categories"

\* Error values. The program rejects with Error objects carrying a Spanish
\* message, or with the storage engine's DOMException.
NotInitialized == "NotInitialized"    \* 'Base de datos no inicializada'
NotFound == "NotFound"                \* 'Transaccion no encontrada' / 'Categoria no encontrada'
InvalidFormat == "InvalidFormat"      \* 'Formato de datos invalido'
CategoryInUse == "CategoryInUse"      \* 'No se puede eliminar: N transacciones usan esta categoria'
ConstraintError == "ConstraintError"  \* IndexedDB: key or unique index value already present

Undefined == [undefined |-> TRUE]     \* the value of store.get for an absent key

Resolved(v) == [status |-> "resolved", value |-> v]
Rejected(e) == [status |-> "rejected", error |-> e]
RejectedCount(e, n) == [status |-> "rejected", error |-> e, count |-> n]

(***************************************************************************)
(* JavaScript objects.                                                     *)
(***************************************************************************)
\* { ...a, ...b }
Spread(a, b) == [f \in (DOMAIN a) \cup (DOMAIN b) |-> IF f \in DOMAIN b THEN b[f] ELSE a[f]]

\* !obj.id : the field is absent or holds the empty string
NoId(obj) == "id" \notin DOMAIN obj \/ obj.id = ""

\* !obj.createdAt : the field is absent or holds the empty string (0)
NoCreatedAt(obj) == "createdAt" \notin DOMAIN obj \/ obj.createdAt = 0

\* generateId(): a fresh identifier per call
GenIds == <<"g1", "g2", "g3", "g4">>
GenerateId(n) == GenIds[n + 1]
GeneratedIds == {GenIds[i] : i \in 1..MaxGen}

(***************************************************************************)
(* The object stores of IndexedDB, keyPath 'id'.                           *)
(***************************************************************************)
Keys(store) == DOMAIN store
Records(store) == {store[k] : k \in DOMAIN store}

\* a unique index on field f refuses rec when another key holds the same value
UniqueClash(store, uniq, rec) ==
    \E f \in uniq : /\ f \in DOMAIN rec
                    /\ \E k \in DOMAIN store : /\ k # rec.id
                                               /\ f \in DOMAIN store[k]
                                               /\ store[k][f] = rec[f]

\* store.put(rec): insert or overwrite under rec.id
PutRecord(store, rec) == [k \in (DOMAIN store) \cup {rec.id} |-> IF k = rec.id THEN rec ELSE store[k]]

\* store.add(rec) succeeds only when the key is free and no unique index clashes
CanAdd(store, uniq, rec) == rec.id \notin DOMAIN store /\ ~UniqueClash(store, uniq, rec)

\* a put that no unique index refuses
CanPutAlways(store, uniq, rec) == TRUE

\* store.put(rec) succeeds unless a unique index clashes
CanPut(store, uniq, rec) == ~UniqueClash(store, uniq, rec)

\* a delete that removes nothing
DeleteKeyKeeps(store, key) == store

\* store.delete(key)
DeleteKey(store, key) == [k \in (DOMAIN store) \ {key} |-> store[k]]

\* store.get(key)
GetKey(store, key) == IF key \in DOMAIN store THEN store[key] ELSE Undefined

EmptyStore == [k \in {} |-> Undefined]

\* the unique indexes of the categories store
CatUnique == {"name"}

(***************************************************************************)
(* The page around the Database: view controller, calendar, service worker.*)
(***************************************************************************)
Null == [null |-> TRUE]

\* this.editingId = null: an id is a string, and null is a string that is
\* no id
NullId == "(null)"

\* the fields of #transaction-form as the page is loaded and as form.reset()
\* leaves them; a text is the sequence of its characters
EmptyForm ==
    [transactionId |-> "", type |-> "income", name |-> <<>>, description |-> <<>>,
     amount |-> <<>>, date |-> 0]

\* new UI() and new App(), over the form of the page as it is loaded.
\* currentMonth is the month of the day the page is loaded (here February);
\* app is the position of App.init; listening tells that setupEventListeners
\* has run; tasks are the handlers waiting for a store operation to settle,
\* in the order in which the operations were called
NewUI ==
    [app |-> "loading", listening |-> FALSE, currentPage |-> "dashboard",
     editingId |-> NullId, currentMonth |-> 2, form |-> EmptyForm,
     notification |-> "none", tasks |-> <<>>]

\* no Calendar has been initialised: no instance listens on the month
\* controls, no load is awaited, no month is rendered in #current-month
\* (shown is 0); tz is the UTC offset of the local time zone in hours
NoCalendar == [tz |-> 0, instances |-> <<>>, loads |-> {}, shown |-> 0]

\* the service worker before its install event: the cache CACHE_NAME is
\* empty, the network is reachable, no request has been answered
NewWorker == [installed |-> FALSE, cache |-> {}, online |-> TRUE, response |-> Null]

(***************************************************************************)
(* Initial state: a freshly constructed Database over empty storage.       *)
(***************************************************************************)
Init ==
    /\ db = FALSE
    /\ version = 0
    /\ stores = EmptyStore
    /\ transactions = EmptyStore
    /\ categories = EmptyStore
    /\ clock = 1
    /\ genCount = 0
    /\ call = [op |-> "constructor"]
    /\ outcome = [status |-> "none"]
    /\ pending = {}
    /\ ui = NewUI
    /\ calendar = NoCalendar
    /\ worker = NewWorker

\* new Database(): a page load constructs the global instance; storage persists
Constructor ==
    /\ db' = FALSE
    /\ call' = [op |-> "constructor"]
    /\ outcome' = [status |-> "none"]
    /\ UNCHANGED <<version, stores, transactions, categories, clock, genCount>>

\* an upgrade that leaves an existing transaction store as it is
UpgradeNewStoresOnly(s) ==
    [n \in {StoreName, CategoriesStore} |->
        IF n \in DOMAIN s THEN s[n]
        ELSE IF n = StoreName THEN {"date", "type", "amount", "category"}
        ELSE {"type", "name"}]

\* onupgradeneeded: create what is missing, keep what exists
Upgrade(s) ==
    LET txIdx == IF StoreName \in DOMAIN s
                 THEN s[StoreName] \cup {"category"}
                 ELSE {"date", "type", "amount", "category"}
        catIdx == IF CategoriesStore \in DOMAIN s
                  THEN s[CategoriesStore]
                  ELSE {"type", "name"}
    IN [n \in {StoreName, CategoriesStore} |-> IF n = StoreName THEN txIdx ELSE catIdx]

\* init(): indexedDB.open(dbName, dbVersion)
DbInit ==
    /\ version <= DbVersion
    /\ stores' = IF version < DbVersion THEN Upgrade(stores) ELSE stores
    /\ version' = DbVersion
    /\ db' = TRUE
    /\ call' = [op |-> "init"]
    /\ outcome' = Resolved("db")
    /\ UNCHANGED <<transactions, categories, clock, genCount>>

\* the version-1 program (the database.js that was deployed before): its
\* dbVersion, and its onupgradeneeded, which creates the transaction store
\* with the indexes date, type and amount when the store is missing
DbVersionV1 == 1

UpgradeV1(s) ==
    [n \in (DOMAIN s) \cup {StoreName} |->
        IF n \in DOMAIN s THEN s[n] ELSE {"date", "type", "amount"}]

\* init() of the version-1 program: indexedDB.open(dbName, 1) fails with
\* VersionError when the storage holds a later version
DbInitV1 ==
    /\ call' = [op |-> "init"]
    /\ IF version > DbVersionV1
       THEN /\ outcome' = Rejected("VersionError")
            /\ UNCHANGED <<db, version, stores>>
       ELSE /\ stores' = IF version < DbVersionV1 THEN UpgradeV1(stores) ELSE stores
            /\ version' = DbVersionV1
            /\ db' = TRUE
            /\ outcome' = Resolved("db")
    /\ UNCHANGED <<transactions, categories, clock, genCount>>

\* time passes
Tick ==
    /\ clock < MaxClock
    /\ clock' = clock + 1
    /\ UNCHANGED <<db, version, stores, transactions, categories, genCount, call, outcome>>

(***************************************************************************)
(* Orders.  IndexedDB returns records in key order; keys are strings and   *)
(* compare by code unit.  KeyOrder lists every key of the model in that    *)
(* order.                                                                  *)
(***************************************************************************)
KeyOrder ==
    << "", "a", "alquiler", "b", "c", "g1", "g2", "g3", "g4", "herramientas", "materiales",
       "nomina", "otros", "reparaciones", "repuestos", "servicios",
       "servicios-publicos", "ventas", "z" >>

Rank(k) == CHOOSE i \in 1..Len(KeyOrder) : KeyOrder[i] = k

\* the records of S in ascending order of sortKey[r] (sortKey is injective on S)
RECURSIVE SortAsc(_, _)
SortAsc(S, sortKey) ==
    IF S = {} THEN <<>>
    ELSE LET m == CHOOSE r \in S : \A q \in S : sortKey[r] <= sortKey[q]
         IN <<m>> \o SortAsc(S \ {m}, sortKey)

\* store.getAll(): every record, in key order
GetAll(store) == SortAsc(Records(store), [r \in Records(store) |-> Rank(r.id)])

\* the values of the index over field f
IndexKeys(store, f) == {r[f] : r \in {q \in Records(store) : f \in DOMAIN q}}

\* index.getAll(range) on the index over field f: the records that have the
\* field and whose value is in the range (a set of values)
IndexGetAll(store, f, range) ==
    {r \in Records(store) : f \in DOMAIN r /\ r[f] \in range}

RECURSIVE PermsOf(_)
PermsOf(S) ==
    IF S = {} THEN {<<>>}
    ELSE UNION {{<<x>> \o p : p \in PermsOf(S \ {x})} : x \in S}

\* a sort that leaves the records in any order
AnyOrders(S) == PermsOf(S)

\* new Date(r.date) is a valid date
HasDate(r) == "date" \in DOMAIN r

\* transactions.sort((a, b) => new Date(b.date) - new Date(a.date)): the
\* comparator orders by date, newest first; records of equal date may come
\* in any order, and so may all records when a date is invalid (the
\* comparator then yields NaN and the order is implementation-defined)
RECURSIVE DateDescOrders(_)
DateDescOrders(S) ==
    IF S = {} THEN {<<>>}
    ELSE LET newest == {r \in S : \A q \in S : r.date >= q.date}
         IN UNION {{<<r>> \o t : t \in DateDescOrders(S \ {r})} : r \in newest}

SortedByDateDesc(S) ==
    IF \A r \in S : HasDate(r) THEN DateDescOrders(S) ELSE PermsOf(S)

(***************************************************************************)
(* Strings that are searched are sequences of characters.                  *)
(***************************************************************************)
UpperChars == <<"A", "B", "C", "D", "E", "F", "G", "H", "I", "J", "K", "L", "M",
                "N", "O", "P", "Q", "R", "S", "T", "U", "V", "W", "X", "Y", "Z">>
LowerChars == <<"a", "b", "c", "d", "e", "f", "g", "h", "i", "j", "k", "l", "m",
                "n", "o", "p", "q", "r", "s", "t", "u", "v", "w", "x", "y", "z">>

LowerChar(c) ==
    IF \E i \in 1..Len(UpperChars) : UpperChars[i] = c
    THEN LowerChars[CHOOSE i \in 1..Len(UpperChars) : UpperChars[i] = c]
    ELSE c

\* str.toLowerCase()
ToLowerCase(str) == [i \in 1..Len(str) |-> LowerChar(str[i])]

\* str.includes(part)
Includes(str, part) ==
    \E i \in 0..(Len(str) - Len(part)) : SubSeq(str, i + 1, i + Len(part)) = part

(***************************************************************************)
(* Transactions.                                                           *)
(***************************************************************************)
\* an add that stamps createdAt even when the object carries one
StampedAlways(obj, newId, now) ==
    Spread(IF NoId(obj) THEN Spread(obj, [id |-> newId]) ELSE obj, [createdAt |-> now])

\* addTransaction: "Agregar ID y timestamp si no existe"
Stamped(obj, newId, now) ==
    LET withId == IF NoId(obj) THEN Spread(obj, [id |-> newId]) ELSE obj
    IN IF NoCreatedAt(withId) THEN Spread(withId, [createdAt |-> now]) ELSE withId

\* store.put in place of store.add: an existing record is overwritten
PutTransactions(txs, rec) == PutRecord(txs, rec)

\* the effect of store.add(transaction) in addTransaction
AddedTransactions(txs, rec) == IF CanAdd(txs, {}, rec) THEN PutRecord(txs, rec) ELSE txs

AddTransaction(T) ==
    /\ call' = [op |-> "addTransaction", arg |-> T]
    /\ IF ~db
       THEN /\ outcome' = Rejected(NotInitialized)
            /\ UNCHANGED <<transactions, genCount>>
       ELSE /\ NoId(T) => genCount < MaxGen
            /\ LET rec == Stamped(T, GenerateId(genCount), clock)
               IN /\ genCount' = IF NoId(T) THEN genCount + 1 ELSE genCount
                  /\ transactions' = AddedTransactions(transactions, rec)
                  /\ outcome' = IF CanAdd(transactions, {}, rec)
                                THEN Resolved(rec.id)
                                ELSE Rejected(ConstraintError)
    /\ UNCHANGED <<db, version, stores, categories, clock>>

\* getAllTransactions()
GetAllTransactions ==
    /\ call' = [op |-> "getAllTransactions"]
    /\ IF ~db
       THEN outcome' = Rejected(NotInitialized)
       ELSE \E s \in SortedByDateDesc(Records(transactions)) : outcome' = Resolved(s)
    /\ UNCHANGED <<db, version, stores, transactions, categories, clock, genCount>>

\* what getTransaction(id) settles with
GetTransactionResult(id) ==
    IF ~db THEN Rejected(NotInitialized) ELSE Resolved(GetKey(transactions, id))

\* getTransaction(id)
GetTransaction(id) ==
    /\ call' = [op |-> "getTransaction", id |-> id]
    /\ outcome' = GetTransactionResult(id)
    /\ UNCHANGED <<db, version, stores, transactions, categories, clock, genCount>>

\* the spread in the wrong order: the stored fields win over the updates
UpdatedStoredWins(old, updates, now) == Spread(Spread(updates, old), [updatedAt |-> now])

\* updateTransaction: { ...transaction, ...updates, updatedAt: new Date().toISOString() }
Updated(old, updates, now) == Spread(Spread(old, updates), [updatedAt |-> now])

UpdateTransaction(id, updates) ==
    /\ call' = [op |-> "updateTransaction", id |-> id, arg |-> updates]
    /\ IF ~db
       THEN /\ outcome' = Rejected(NotInitialized)
            /\ UNCHANGED transactions
       ELSE IF id \notin Keys(transactions)
       THEN /\ outcome' = Rejected(NotFound)
            /\ UNCHANGED transactions
       ELSE LET rec == Updated(transactions[id], updates, clock)
            IN /\ transactions' = PutRecord(transactions, rec)
               /\ outcome' = Resolved(rec)
    /\ UNCHANGED <<db, version, stores, categories, clock, genCount>>

\* a delete that fails when nothing is stored under id
DeleteTransactionStrict(id) ==
    /\ call' = [op |-> "deleteTransaction", id |-> id]
    /\ IF ~db
       THEN /\ outcome' = Rejected(NotInitialized)
            /\ UNCHANGED transactions
       ELSE IF id \notin Keys(transactions)
       THEN /\ outcome' = Rejected(NotFound)
            /\ UNCHANGED transactions
       ELSE /\ transactions' = DeleteKey(transactions, id)
            /\ outcome' = Resolved(TRUE)
    /\ UNCHANGED <<db, version, stores, categories, clock, genCount>>

\* deleteTransaction(id)
DeleteTransaction(id) ==
    /\ call' = [op |-> "deleteTransaction", id |-> id]
    /\ IF ~db
       THEN /\ outcome' = Rejected(NotInitialized)
            /\ UNCHANGED transactions
       ELSE /\ transactions' = DeleteKey(transactions, id)
            /\ outcome' = Resolved(TRUE)
    /\ UNCHANGED <<db, version, stores, categories, clock, genCount>>

\* the result of an index query: the hits by index value, then by key
ByIndex(hits, f) ==
    SortAsc(hits, [r \in hits |-> r[f] * (Len(KeyOrder) + 1) + Rank(r.id)])

\* a key range that leaves out its two bounds
BoundOpen(lower, upper) == (lower + 1)..(upper - 1)

\* IDBKeyRange.bound(lower, upper): both bounds are in the range
Bound(lower, upper) == lower..upper

\* getTransactionsByDateRange(startDate, endDate): IDBKeyRange.bound is
\* inclusive at both ends and throws DataError when lower > upper
GetTransactionsByDateRange(startDate, endDate) ==
    /\ call' = [op |-> "getTransactionsByDateRange", from |-> startDate, to |-> endDate]
    /\ outcome' =
          IF ~db THEN Rejected(NotInitialized)
          ELSE IF "date" \notin stores[StoreName] THEN Rejected("NotFoundError")
          ELSE IF startDate > endDate THEN Rejected("DataError")
          ELSE Resolved(ByIndex(IndexGetAll(transactions, "date", Bound(startDate, endDate)), "date"))
    /\ UNCHANGED <<db, version, stores, transactions, categories, clock, genCount>>

\* the records whose field f equals v, in key order
ExactMatch(store, f, v) ==
    SortAsc(IndexGetAll(store, f, {v}),
            [r \in IndexGetAll(store, f, {v}) |-> Rank(r.id)])

\* getTransactionsByType(type)
GetTransactionsByType(type) ==
    /\ call' = [op |-> "getTransactionsByType", type |-> type]
    /\ outcome' =
          IF ~db THEN Rejected(NotInitialized)
          ELSE IF "type" \notin stores[StoreName] THEN Rejected("NotFoundError")
          ELSE Resolved(ExactMatch(transactions, "type", type))
    /\ UNCHANGED <<db, version, stores, transactions, categories, clock, genCount>>

\* getStats(): one pass over getAllTransactions(); the amounts of the model
\* are numbers, which parseFloat leaves as they are
RECURSIVE SumAmounts(_)
SumAmounts(S) ==
    IF S = {} THEN 0
    ELSE LET r == CHOOSE x \in S : TRUE IN r.amount + SumAmounts(S \ {r})

IsIncome(r) == "type" \in DOMAIN r /\ r.type = "income"

\* the aggregate with the balance computed as a sum
StatsBalanceAdds(txs) ==
    LET totalIncome == SumAmounts({r \in txs : IsIncome(r)})
        totalExpense == SumAmounts({r \in txs : ~IsIncome(r)})
    IN [totalIncome |-> totalIncome,
        totalExpense |-> totalExpense,
        balance |-> totalIncome + totalExpense,
        count |-> Cardinality(txs)]

Stats(txs) ==
    LET totalIncome == SumAmounts({r \in txs : IsIncome(r)})
        totalExpense == SumAmounts({r \in txs : ~IsIncome(r)})
    IN [totalIncome |-> totalIncome,
        totalExpense |-> totalExpense,
        balance |-> totalIncome - totalExpense,
        count |-> Cardinality(txs)]

GetStats ==
    /\ call' = [op |-> "getStats"]
    /\ outcome' = IF ~db THEN Rejected(NotInitialized) ELSE Resolved(Stats(Records(transactions)))
    /\ UNCHANGED <<db, version, stores, transactions, categories, clock, genCount>>

\* searchTransactions(searchText): the filter of getAllTransactions()
Matches(r, searchText) ==
    \/ Includes(ToLowerCase(r.name), ToLowerCase(searchText))
    \/ /\ "description" \in DOMAIN r
       /\ r.description # <<>>
       /\ Includes(ToLowerCase(r.description), ToLowerCase(searchText))

SearchTransactions(searchText) ==
    /\ call' = [op |-> "searchTransactions", text |-> searchText]
    /\ IF ~db
       THEN outcome' = Rejected(NotInitialized)
       ELSE \E s \in SortedByDateDesc(Records(transactions)) :
               outcome' = Resolved(SelectSeq(s, LAMBDA r : Matches(r, searchText)))
    /\ UNCHANGED <<db, version, stores, transactions, categories, clock, genCount>>

\* clearAll() without its check of this.db
ClearAllUnchecked ==
    /\ call' = [op |-> "clearAll"]
    /\ transactions' = EmptyStore
    /\ outcome' = Resolved(TRUE)
    /\ UNCHANGED <<db, version, stores, categories, clock, genCount>>

\* clearAll()
ClearAll ==
    /\ call' = [op |-> "clearAll"]
    /\ IF ~db
       THEN /\ outcome' = Rejected(NotInitialized)
            /\ UNCHANGED transactions
       ELSE /\ transactions' = EmptyStore
            /\ outcome' = Resolved(TRUE)
    /\ UNCHANGED <<db, version, stores, categories, clock, genCount>>

(***************************************************************************)
(* Export and import.  A JSON value is tagged with its kind: an array      *)
(* carries its items.                                                      *)
(***************************************************************************)
Array(items) == [kind |-> "array", items |-> items]

\* !data.transactions || !Array.isArray(data.transactions)
InvalidData(data) ==
    IF "transactions" \notin DOMAIN data THEN TRUE
    ELSE \/ data.transactions.kind \in {"null", "emptyString"}
         \/ data.transactions.kind # "array"

\* exportData()
ExportData ==
    /\ call' = [op |-> "exportData"]
    /\ IF ~db
       THEN outcome' = Rejected(NotInitialized)
       ELSE \E s \in SortedByDateDesc(Records(transactions)) :
               outcome' = Resolved([exportedAt |-> clock, count |-> Len(s), transactions |-> Array(s)])
    /\ UNCHANGED <<db, version, stores, transactions, categories, clock, genCount>>

\* the loop going on after a failed add, which it skips
RECURSIVE AddEachSkipping(_, _, _, _)
AddEachSkipping(items, stamps, i, st) ==
    IF i > Len(items) THEN st
    ELSE LET rec == Stamped(items[i], GenerateId(st.gen), stamps[i])
             gen == IF NoId(items[i]) THEN st.gen + 1 ELSE st.gen
         IN AddEachSkipping(items, stamps, i + 1,
                    [txs |-> AddedTransactions(st.txs, rec),
                     gen |-> gen,
                     failed |-> IF CanAdd(st.txs, {}, rec) \/ st.failed # 0 THEN st.failed ELSE i])

\* the loop of importData: addTransaction on each item in turn, stopping at
\* the first that fails.  st is [txs, gen, failed]; stamps[i] is the clock
\* when item i is added.
RECURSIVE AddEach(_, _, _, _)
AddEach(items, stamps, i, st) ==
    IF i > Len(items) \/ st.failed # 0 THEN st
    ELSE LET rec == Stamped(items[i], GenerateId(st.gen), stamps[i])
             gen == IF NoId(items[i]) THEN st.gen + 1 ELSE st.gen
         IN AddEach(items, stamps, i + 1,
                    [txs |-> AddedTransactions(st.txs, rec),
                     gen |-> gen,
                     failed |-> IF CanAdd(st.txs, {}, rec) THEN 0 ELSE i])

\* the clock read at each of n awaited steps: it never runs backwards
Stamps(n, from) ==
    {s \in [1..n -> from..MaxClock] : \A i \in 1..(n - 1) : s[i] <= s[i + 1]}

NumNoId(items) == Cardinality({i \in 1..Len(items) : NoId(items[i])})

\* importData past its validation: clearAll, then addTransaction on each item
ImportValid(data) ==
    IF ~db
    THEN /\ outcome' = Rejected(NotInitialized)
         /\ UNCHANGED <<transactions, genCount, clock>>
    ELSE LET items == data.transactions.items
         IN /\ genCount + NumNoId(items) <= MaxGen
            /\ \E stamps \in Stamps(Len(items), clock) :
                  LET end == AddEach(items, stamps, 1,
                                     [txs |-> EmptyStore, gen |-> genCount, failed |-> 0])
                  IN /\ transactions' = end.txs
                     /\ genCount' = end.gen
                     /\ clock' = IF end.failed # 0 THEN stamps[end.failed]
                                 ELSE IF Len(items) > 0 THEN stamps[Len(items)]
                                 ELSE clock
                     /\ outcome' = IF end.failed # 0
                                   THEN Rejected(ConstraintError)
                                   ELSE Resolved(Len(items))

\* importData clearing the collection before it validates the payload
ImportDataClearFirst(data) ==
    /\ call' = [op |-> "importData", arg |-> data]
    /\ IF ~db
       THEN /\ outcome' = Rejected(NotInitialized)
            /\ UNCHANGED <<transactions, genCount, clock>>
       ELSE IF InvalidData(data)
       THEN /\ outcome' = Rejected(InvalidFormat)
            /\ transactions' = EmptyStore
            /\ UNCHANGED <<genCount, clock>>
       ELSE ImportValid(data)
    /\ UNCHANGED <<db, version, stores, categories>>

\* importData(data)
ImportData(data) ==
    /\ call' = [op |-> "importData", arg |-> data]
    /\ IF InvalidData(data)
       THEN /\ outcome' = Rejected(InvalidFormat)
            /\ UNCHANGED <<transactions, genCount, clock>>
       ELSE ImportValid(data)
    /\ UNCHANGED <<db, version, stores, categories>>

(***************************************************************************)
(* Categories.                                                             *)
(***************************************************************************)
\* the defaultCategories literal of initDefaultCategories (accents dropped)
DefaultCategories(now) ==
    << [id |-> "ventas", name |-> "Ventas", color |-> "#4CAF50", icon |-> "store", type |-> "income", createdAt |-> now],
       [id |-> "servicios", name |-> "Servicios", color |-> "#2196F3", icon |-> "build", type |-> "income", createdAt |-> now],
       [id |-> "reparaciones", name |-> "Reparaciones", color |-> "#00BCD4", icon |-> "handyman", type |-> "income", createdAt |-> now],
       [id |-> "repuestos", name |-> "Repuestos", color |-> "#FF9800", icon |-> "settings", type |-> "expense", createdAt |-> now],
       [id |-> "materiales", name |-> "Materiales", color |-> "#9C27B0", icon |-> "inventory_2", type |-> "expense", createdAt |-> now],
       [id |-> "herramientas", name |-> "Herramientas", color |-> "#795548", icon |-> "construction", type |-> "expense", createdAt |-> now],
       [id |-> "alquiler", name |-> "Alquiler", color |-> "#607D8B", icon |-> "house", type |-> "expense", createdAt |-> now],
       [id |-> "servicios-publicos", name |-> "Servicios Publicos", color |-> "#3F51B5", icon |-> "flash_on", type |-> "expense", createdAt |-> now],
       [id |-> "nomina", name |-> "Nomina", color |-> "#F44336", icon |-> "groups", type |-> "expense", createdAt |-> now],
       [id |-> "otros", name |-> "Otros", color |-> "#9E9E9E", icon |-> "category", type |-> "both", createdAt |-> now] >>

\* a.name.localeCompare(b.name) orders the names of the model as listed
NameOrder ==
    << "Alquiler", "Herramientas", "Materiales", "Nomina", "Nueva", "Otros", "Reparaciones",
       "Repuestos", "Servicios", "Servicios Publicos", "Ventas" >>

NameRank(n) == CHOOSE i \in 1..Len(NameOrder) : NameOrder[i] = n

\* updateCategory that writes the updates even when nothing is stored under id
UpdateCategoryUpsert(cats, id, updates, now) ==
    LET old == IF id \in Keys(cats) THEN cats[id] ELSE [id |-> id]
        rec == Updated(old, updates, now)
    IN IF CanPut(cats, CatUnique, rec)
       THEN [cats |-> PutRecord(cats, rec), outcome |-> Resolved(rec)]
       ELSE [cats |-> cats, outcome |-> Rejected(ConstraintError)]

\* updateCategory(id, updates) at time now, on the store cats: [cats, outcome]
UpdateCategoryEffect(cats, id, updates, now) ==
    IF id \notin Keys(cats)
    THEN [cats |-> cats, outcome |-> Rejected(NotFound)]
    ELSE LET rec == Updated(cats[id], updates, now)
         IN IF CanPut(cats, CatUnique, rec)
            THEN [cats |-> PutRecord(cats, rec), outcome |-> Resolved(rec)]
            ELSE [cats |-> cats, outcome |-> Rejected(ConstraintError)]

\* addCategory without the fallback: the ConstraintError is passed on
AddCategoryNoFallback(cats, category, newId, now, later) ==
    LET rec == Stamped(category, newId, now)
    IN IF CanAdd(cats, CatUnique, rec)
       THEN [cats |-> PutRecord(cats, rec), outcome |-> Resolved(rec.id)]
       ELSE [cats |-> cats, outcome |-> Rejected(ConstraintError)]

\* addCategory(category) on the store cats: store.add, and on its
\* ConstraintError "Si existe, intentar actualizar"
AddCategoryEffect(cats, category, newId, now, later) ==
    LET rec == Stamped(category, newId, now)
    IN IF CanAdd(cats, CatUnique, rec)
       THEN [cats |-> PutRecord(cats, rec), outcome |-> Resolved(rec.id)]
       ELSE UpdateCategoryEffect(cats, rec.id, rec, later)

AddCategory(category) ==
    /\ call' = [op |-> "addCategory", arg |-> category]
    /\ IF ~db
       THEN /\ outcome' = Rejected(NotInitialized)
            /\ UNCHANGED <<categories, genCount, clock>>
       ELSE /\ NoId(category) => genCount < MaxGen
            /\ \E later \in clock..MaxClock :
                  LET eff == AddCategoryEffect(categories, category, GenerateId(genCount), clock, later)
                      fellBack == ~CanAdd(categories, CatUnique,
                                          Stamped(category, GenerateId(genCount), clock))
                  IN /\ later > clock => fellBack
                     /\ categories' = eff.cats
                     /\ outcome' = eff.outcome
                     /\ clock' = later
            /\ genCount' = IF NoId(category) THEN genCount + 1 ELSE genCount
    /\ UNCHANGED <<db, version, stores, transactions>>

\* getAllCategories()
GetAllCategories ==
    /\ call' = [op |-> "getAllCategories"]
    /\ outcome' = IF ~db THEN Rejected(NotInitialized) ELSE Resolved(GetAll(categories))
    /\ UNCHANGED <<db, version, stores, transactions, categories, clock, genCount>>

\* the query with only(type) for every type, 'both' included
CategoriesByTypeOnly(cats, type) ==
    LET hits == IndexGetAll(cats, "type", {type})
    IN IF \E r \in hits : "name" \notin DOMAIN r
       THEN [status |-> "pending"]
       ELSE Resolved(SortAsc(hits, [r \in hits |->
                        NameRank(r.name) * (Len(KeyOrder) + 1) + Rank(r.id)]))

\* getCategoriesByType(type): the whole index for 'both', else only(type);
\* sorted by name.  A hit without a name makes the comparator throw inside
\* the success handler, and the promise never settles.
CategoriesByType(cats, type) ==
    LET range == IF type = "both" THEN IndexKeys(cats, "type") ELSE {type}
        hits == IndexGetAll(cats, "type", range)
    IN IF \E r \in hits : "name" \notin DOMAIN r
       THEN [status |-> "pending"]
       ELSE Resolved(SortAsc(hits, [r \in hits |->
                        NameRank(r.name) * (Len(KeyOrder) + 1) + Rank(r.id)]))

GetCategoriesByType(type) ==
    /\ call' = [op |-> "getCategoriesByType", type |-> type]
    /\ outcome' =
          IF ~db THEN Rejected(NotInitialized)
          ELSE IF "type" \notin stores[CategoriesStore] THEN Resolved(GetAll(categories))
          ELSE CategoriesByType(categories, type)
    /\ UNCHANGED <<db, version, stores, transactions, categories, clock, genCount>>

\* getCategory(id)
GetCategory(id) ==
    /\ call' = [op |-> "getCategory", id |-> id]
    /\ outcome' = IF ~db THEN Rejected(NotInitialized) ELSE Resolved(GetKey(categories, id))
    /\ UNCHANGED <<db, version, stores, transactions, categories, clock, genCount>>

\* updateCategory(id, updates)
UpdateCategory(id, updates) ==
    /\ call' = [op |-> "updateCategory", id |-> id, arg |-> updates]
    /\ IF ~db
       THEN /\ outcome' = Rejected(NotInitialized)
            /\ UNCHANGED categories
       ELSE LET eff == UpdateCategoryEffect(categories, id, updates, clock)
            IN /\ categories' = eff.cats
               /\ outcome' = eff.outcome
    /\ UNCHANGED <<db, version, stores, transactions, clock, genCount>>

\* the usage check finding only the first referencing transaction
TransactionsByCategoryFirst(txs, idx, categoryId) ==
    IF "category" \notin idx \/ ExactMatch(txs, "category", categoryId) = <<>> THEN <<>>
    ELSE <<Head(ExactMatch(txs, "category", categoryId))>>

\* getTransactionsByCategory(categoryId): "indice no disponible" yields []
TransactionsByCategory(txs, idx, categoryId) ==
    IF "category" \notin idx THEN <<>> ELSE ExactMatch(txs, "category", categoryId)

GetTransactionsByCategory(categoryId) ==
    /\ call' = [op |-> "getTransactionsByCategory", id |-> categoryId]
    /\ outcome' =
          IF ~db THEN Rejected(NotInitialized)
          ELSE Resolved(TransactionsByCategory(transactions, stores[StoreName], categoryId))
    /\ UNCHANGED <<db, version, stores, transactions, categories, clock, genCount>>

\* deleteCategory(id): "verificar uso", then delete
InUse(txs, idx, id) == Len(TransactionsByCategory(txs, idx, id))

DeleteCategory(id) ==
    /\ call' = [op |-> "deleteCategory", id |-> id]
    /\ IF ~db
       THEN /\ outcome' = Rejected(NotInitialized)
            /\ UNCHANGED categories
       ELSE IF InUse(transactions, stores[StoreName], id) > 0
       THEN /\ outcome' = RejectedCount(CategoryInUse, InUse(transactions, stores[StoreName], id))
            /\ UNCHANGED categories
       ELSE /\ categories' = DeleteKey(categories, id)
            /\ outcome' = Resolved(TRUE)
    /\ UNCHANGED <<db, version, stores, transactions, clock, genCount>>

(***************************************************************************)
(* The view controller (class UI) and the start of the application (class  *)
(* App). A handler that awaits a store operation is two steps: up to the   *)
(* call, which is queued on the store at once, and from the settlement on. *)
(* The store runs the operations of one store in the order of their calls, *)
(* so the effect of a call is taken when it is made.                       *)
(***************************************************************************)
\* String.prototype.trim
RECURSIVE TrimStart(_)
TrimStart(text) == IF text # <<>> /\ Head(text) = " " THEN TrimStart(Tail(text)) ELSE text

RECURSIVE TrimEnd(_)
TrimEnd(text) ==
    IF text # <<>> /\ text[Len(text)] = " " THEN TrimEnd(SubSeq(text, 1, Len(text) - 1)) ELSE text

Trim(text) == TrimEnd(TrimStart(text))

Digits == <<"0", "1", "2", "3", "4", "5", "6", "7", "8", "9">>
IsDigit(c) == \E i \in 1..Len(Digits) : Digits[i] = c
DigitValue(c) == (CHOOSE i \in 1..Len(Digits) : Digits[i] = c) - 1

\* the value of the longest prefix of digits
RECURSIVE DigitsValue(_, _)
DigitsValue(text, acc) ==
    IF text # <<>> /\ IsDigit(Head(text))
    THEN DigitsValue(Tail(text), acc * 10 + DigitValue(Head(text)))
    ELSE acc

NaN == [nan |-> TRUE, value |-> 0]
Number(n) == [nan |-> FALSE, value |-> n]

\* parseFloat(text), for texts without fraction or exponent: leading blanks
\* are skipped, a sign is read, then the longest prefix of digits; what
\* follows is ignored, and NaN results when no digit is found
ParseFloat(text) ==
    LET t == TrimStart(text)
        u == IF t # <<>> /\ Head(t) \in {"-", "+"} THEN Tail(t) ELSE t
    IN IF u = <<>> \/ ~IsDigit(Head(u)) THEN NaN
       ELSE IF Head(t) = "-" THEN Number(0 - DigitsValue(u, 0))
       ELSE Number(DigitsValue(u, 0))

\* a number written into a field of the form
RECURSIVE NumberToString(_)
NumberToString(n) == IF n < 10 THEN <<Digits[n + 1]>> ELSE NumberToString(n \div 10) \o <<Digits[(n % 10) + 1]>>

\* validateField(field, 'name')
ValidName(form) == Trim(form.name) # <<>> /\ Len(Trim(form.name)) <= MaxNameLength

\* validateField(field, 'amount')
ValidAmount(form) ==
    LET value == ParseFloat(form.amount) IN ~(value.nan \/ value.value <= 0)

\* a validation that looks at the name only
ValidateFormNameOnly(form) == ValidName(form)

\* validateForm()
ValidateForm(form) == ValidName(form) /\ ValidAmount(form)

\* formData of handleFormSubmit; newId is what db.generateId() returns
FormData(form, newId) ==
    [type |-> form.type,
     name |-> Trim(form.name),
     description |-> Trim(form.description),
     amount |-> ParseFloat(form.amount).value,
     date |-> form.date,
     id |-> IF form.transactionId # "" THEN form.transactionId ELSE newId]

\* showNotification(message, type)
ShowNotification(u, type) == [u EXCEPT !.notification = type]

\* switchPage(page)
SwitchPage(u, page) == [u EXCEPT !.currentPage = page]

\* a reset that leaves the hidden id field as it is
ResetFormKeepsId(u, today) ==
    [u EXCEPT !.form = [EmptyForm EXCEPT !.date = today, !.transactionId = u.form.transactionId],
              !.editingId = NullId]

\* resetForm()
ResetForm(u, today) ==
    [u EXCEPT !.form = [EmptyForm EXCEPT !.date = today], !.editingId = NullId]

\* handlers waiting for a store operation
Await(u, task) == [u EXCEPT !.tasks = Append(@, task)]
Settled(u) == [u EXCEPT !.tasks = Tail(@)]

\* init(): request.onerror
DbInitError ==
    /\ call' = [op |-> "init"]
    /\ outcome' = Rejected("OpenError")
    /\ UNCHANGED <<db, version, stores, transactions, categories, clock, genCount>>

\* a page load: new Database(), new UI(), new App(); the storage persists
PageLoad ==
    /\ Constructor
    /\ ui' = NewUI
    /\ calendar' = [NoCalendar EXCEPT !.tz = calendar.tz]
    /\ UNCHANGED <<pending, worker>>

\* App.init: await this.db.init() resolves
AppInitDatabase ==
    /\ ui.app = "loading"
    /\ DbInit
    /\ ui' = [ui EXCEPT !.app = "database"]
    /\ UNCHANGED <<pending, calendar, worker>>

\* App.init: await this.db.init() rejects, the catch shows the fatal error
AppInitFails ==
    /\ ui.app = "loading"
    /\ DbInitError
    /\ ui' = [ui EXCEPT !.app = "fatal"]
    /\ UNCHANGED <<pending, calendar, worker>>

\* a UI.init that does not wait for the database
UIInitAtOnce ==
    /\ ui.app \in {"loading", "database"}
    /\ GetAllTransactions
    /\ ui' = [ui EXCEPT !.app = "interface", !.listening = TRUE, !.form.date = clock]
    /\ UNCHANGED <<pending, calendar, worker>>

\* App.init: await this.ui.init(): the listeners are added and the
\* dashboard is loaded (getStats, getAllTransactions)
UIInit ==
    /\ ui.app = "database"
    /\ GetAllTransactions
    /\ ui' = [ui EXCEPT !.app = "interface", !.listening = TRUE, !.form.date = clock]
    /\ UNCHANGED <<pending, calendar, worker>>

\* App.init: await this.checkFirstTime()
CheckFirstTime ==
    /\ ui.app = "interface"
    /\ GetAllTransactions
    /\ ui' = [ui EXCEPT !.app = "started",
                        !.notification = IF Keys(transactions) = {} THEN "info" ELSE @]
    /\ UNCHANGED <<pending, calendar, worker>>

\* the user types into #name
InputName(text) ==
    /\ ui.listening
    /\ ui.form.name # text
    /\ ui' = [ui EXCEPT !.form.name = text]
    /\ UNCHANGED <<dbVars, pending, calendar, worker>>

\* the user types into #amount
InputAmount(text) ==
    /\ ui.listening
    /\ ui.form.amount # text
    /\ ui' = [ui EXCEPT !.form.amount = text]
    /\ UNCHANGED <<dbVars, pending, calendar, worker>>

\* handleFormSubmit up to its await
HandleFormSubmit ==
    /\ ui.listening
    /\ Len(ui.tasks) < MaxTasks
    /\ IF ~ValidateForm(ui.form)
       THEN /\ ui' = ShowNotification(ui, "error")
            /\ UNCHANGED dbVars
       ELSE IF ui.editingId \notin {NullId, ""}
       THEN /\ UpdateTransaction(ui.editingId, FormData(ui.form, NullId))
            /\ ui' = Await(ui, [handler |-> "submit", ok |-> outcome'.status = "resolved"])
       ELSE /\ genCount < MaxGen
            /\ LET formData == FormData(ui.form, GenerateId(genCount))
                   rec == Stamped(formData, formData.id, clock)
               IN /\ call' = [op |-> "addTransaction", arg |-> formData]
                  /\ genCount' = IF ui.form.transactionId = "" THEN genCount + 1 ELSE genCount
                  /\ transactions' = AddedTransactions(transactions, rec)
                  /\ outcome' = IF CanAdd(transactions, {}, rec)
                                THEN Resolved(rec.id)
                                ELSE Rejected(ConstraintError)
                  /\ ui' = Await(ui, [handler |-> "submit", ok |-> CanAdd(transactions, {}, rec)])
            /\ UNCHANGED <<db, version, stores, categories, clock>>
    /\ UNCHANGED <<pending, calendar, worker>>

\* handleFormSubmit from its await on: resetForm, switchPage, loadDashboard
SubmitSettled ==
    /\ ui.tasks # <<>>
    /\ Head(ui.tasks).handler = "submit"
    /\ IF Head(ui.tasks).ok
       THEN /\ ui' = SwitchPage(ResetForm(ShowNotification(Settled(ui), "success"), clock),
                                "transactions")
            /\ GetAllTransactions
       ELSE /\ ui' = ShowNotification(Settled(ui), "error")
            /\ UNCHANGED dbVars
    /\ UNCHANGED <<pending, calendar, worker>>

\* editTransaction(id) up to its await
EditTransaction(id) ==
    /\ ui.listening
    /\ Len(ui.tasks) < MaxTasks
    /\ GetTransaction(id)
    /\ ui' = Await(ui, [handler |-> "edit", id |-> id, transaction |-> GetKey(transactions, id)])
    /\ UNCHANGED <<pending, calendar, worker>>

\* editTransaction(id) from its await on: the form is filled
EditSettled ==
    /\ ui.tasks # <<>>
    /\ Head(ui.tasks).handler = "edit"
    /\ LET id == Head(ui.tasks).id
           transaction == Head(ui.tasks).transaction
       IN IF transaction = Undefined
          THEN ui' = ShowNotification(Settled(ui), "error")
          ELSE ui' = SwitchPage(
                 [Settled(ui) EXCEPT
                     !.editingId = id,
                     !.form = [transactionId |-> id,
                               type |-> transaction.type,
                               name |-> transaction.name,
                               description |-> transaction.description,
                               amount |-> NumberToString(transaction.amount),
                               date |-> transaction.date]],
                 "add")
    /\ UNCHANGED <<dbVars, pending, calendar, worker>>

\* UI.deleteTransaction(id) up to its await: from the delete button of the
\* form (id is editingId) or from the list, after confirm()
DeleteClicked(id) ==
    /\ ui.listening
    /\ Len(ui.tasks) < MaxTasks
    /\ id \notin {NullId, ""}
    /\ DeleteTransaction(id)
    /\ ui' = Await(ui, [handler |-> "delete", id |-> id])
    /\ UNCHANGED <<pending, calendar, worker>>

\* UI.deleteTransaction(id) from its await on
DeleteSettled ==
    /\ ui.tasks # <<>>
    /\ Head(ui.tasks).handler = "delete"
    /\ ui' = IF ui.editingId = Head(ui.tasks).id
             THEN SwitchPage(ResetForm(ShowNotification(Settled(ui), "success"), clock),
                             "transactions")
             ELSE ShowNotification(Settled(ui), "success")
    /\ GetAllTransactions
    /\ UNCHANGED <<pending, calendar, worker>>

\* the click on #cancel-btn: resetForm, switchPage('transactions')
Cancel ==
    /\ ui.listening
    /\ ui' = SwitchPage(ResetForm(ui, clock), "transactions")
    /\ GetAllTransactions
    /\ UNCHANGED <<pending, calendar, worker>>

(***************************************************************************)
(* The calendar. A date is the number of its day, counted from the last    *)
(* day of the year before (day 1 is January 1); a month is its number in   *)
(* the year (the program's getMonth() + 1); an instant is a number of      *)
(* hours UTC counted from the midnight that starts day 0.                  *)
(***************************************************************************)
DaysInMonth == <<31, 28, 31, 30, 31, 30, 31, 31, 30, 31, 30, 31>>

RECURSIVE DaysBefore(_)
DaysBefore(month) == IF month = 1 THEN 0 ELSE DaysBefore(month - 1) + DaysInMonth[month - 1]

\* new Date(year, month, day): local midnight of that day; day 0 is the
\* last day of the month before
LocalDate(month, day) == DaysBefore(month) + day

\* the instant of the local midnight that starts a day, at UTC offset tz
Midnight(date, tz) == date * 24 - tz

\* date.toISOString().split('T')[0]: the UTC date of an instant
ToISODate(instant) == instant \div 24

\* loadTransactionsForMonth: startDate and endDate of the query
MonthRange(month, tz) ==
    [start |-> ToISODate(Midnight(LocalDate(month, 1), tz)),
     end |-> ToISODate(Midnight(LocalDate(month + 1, 0), tz))]

\* the transactions of a query result, organised by date
ByDate(result) ==
    [d \in {result[i].date : i \in 1..Len(result)} |->
        SelectSeq(result, LAMBDA r : r.date = d)]

\* the UTC offset of the local time zone changes (the device travels)
TimeZone(tz) ==
    /\ calendar.tz # tz
    /\ calendar' = [calendar EXCEPT !.tz = tz]
    /\ UNCHANGED <<dbVars, pending, ui, worker>>

\* UI.loadCalendar up to the await in Calendar.init: a new Calendar on
\* ui.currentMonth asks for the transactions of its month
LoadCalendar ==
    /\ db
    /\ Len(calendar.instances) < MaxCalendars
    /\ LET i == Len(calendar.instances) + 1
       IN calendar' = [calendar EXCEPT
              !.instances = Append(@, [currentMonth |-> ui.currentMonth,
                                       transactionsByDate |-> <<>>,
                                       listening |-> FALSE]),
              !.loads = @ \cup {[instance |-> i, init |-> TRUE,
                                 range |-> MonthRange(ui.currentMonth, calendar.tz)]}]
    /\ ui' = [ui EXCEPT !.currentPage = "calendar"]
    /\ UNCHANGED <<dbVars, pending, worker>>

\* a click on #next-month (delta 1) or #prev-month (delta -1): every listener
\* that a Calendar has added runs changeMonth(delta) up to its await (the
\* click comes when the loads of the listening calendars have settled, and
\* stays within the months of the model)
ClickMonth(delta) ==
    /\ \E i \in 1..Len(calendar.instances) : calendar.instances[i].listening
    /\ \A i \in 1..Len(calendar.instances) :
          calendar.instances[i].listening =>
              /\ calendar.instances[i].currentMonth + delta \in 1..MaxMonth
              /\ \A l \in calendar.loads : l.instance # i
    /\ calendar' = [calendar EXCEPT
          !.instances = [i \in 1..Len(@) |->
              IF @[i].listening
              THEN [@[i] EXCEPT !.currentMonth = @ + delta]
              ELSE @[i]],
          !.loads = @ \cup
              {[instance |-> i, init |-> FALSE,
                range |-> MonthRange(calendar.instances[i].currentMonth + delta, calendar.tz)] :
                  i \in {j \in 1..Len(calendar.instances) : calendar.instances[j].listening}}]
    /\ UNCHANGED <<dbVars, pending, ui, worker>>

\* the query of a load resolves: transactionsByDate is rebuilt, the
\* calendar of that instance is rendered, and init adds its listeners
SettleLoad(l) ==
    /\ db
    /\ LET result == ByIndex(IndexGetAll(transactions, "date", Bound(l.range.start, l.range.end)), "date")
       IN /\ call' = [op |-> "getTransactionsByDateRange", from |-> l.range.start, to |-> l.range.end]
          /\ outcome' = Resolved(result)
          /\ calendar' = [calendar EXCEPT
                !.instances[l.instance] =
                    [@ EXCEPT !.transactionsByDate = ByDate(result),
                              !.listening = @ \/ l.init],
                !.loads = @ \ {l},
                !.shown = calendar.instances[l.instance].currentMonth]
    /\ UNCHANGED <<db, version, stores, transactions, categories, clock, genCount>>
    /\ UNCHANGED <<pending, ui, worker>>

(***************************************************************************)
(* The service worker. A URL is the sequence of its parts, so that         *)
(* url.includes('.html') is a search for the subsequence <<".html">>.      *)
(***************************************************************************)
RootUrl == <<"/">>
IndexHtml == <<"/", "index", ".html">>

UrlsToCache ==
    { RootUrl, IndexHtml,
      <<"/", "css", "/", "styles", ".css">>,
      <<"/", "js", "/", "app", ".js">>,
      <<"/", "js", "/", "database", ".js">>,
      <<"/", "js", "/", "ui", ".js">>,
      <<"/", "js", "/", "calendar", ".js">>,
      <<"https://fonts.googleapis.com", "/", "icon", "?", "family=Material+Icons">>,
      <<"/", "manifest", ".json">> }

\* the answers handed to event.respondWith
FromCache(url) == [from |-> "cache", url |-> url]
FromNetwork(url, kind) == [from |-> "network", url |-> url, kind |-> kind]

\* caches.match(request)
CacheMatch(cache, url) == IF url \in cache THEN FromCache(url) ELSE Undefined

\* a fallback that answers every failed request with the start page
FallbackAlways(cache, url) == CacheMatch(cache, IndexHtml)

\* the .catch of the fetch handler
Fallback(cache, url) ==
    IF Includes(url, <<".html">>) THEN CacheMatch(cache, IndexHtml) ELSE Undefined

\* the install event: cache.addAll(urlsToCache) fetches every URL and
\* stores all of them or none
Install ==
    /\ ~worker.installed
    /\ worker.online
    /\ worker' = [worker EXCEPT !.installed = TRUE, !.cache = @ \cup UrlsToCache]
    /\ UNCHANGED <<dbVars, pending, ui, calendar>>

\* the fetch event for url; net is what the network answers when reachable
FetchEvent(url, net) ==
    /\ worker.installed
    /\ IF CacheMatch(worker.cache, url) # Undefined
       THEN worker' = [worker EXCEPT !.response = CacheMatch(worker.cache, url)]
       ELSE IF worker.online
       THEN IF net = "basic200"
            THEN worker' = [worker EXCEPT !.response = FromNetwork(url, net),
                                          !.cache = @ \cup {url}]
            ELSE worker' = [worker EXCEPT !.response = FromNetwork(url, net)]
       ELSE worker' = [worker EXCEPT !.response = Fallback(worker.cache, url)]
    /\ UNCHANGED <<dbVars, pending, ui, calendar>>

\* the connection is lost or comes back
Connection(on) ==
    /\ worker.online # on
    /\ worker' = [worker EXCEPT !.online = on]
    /\ UNCHANGED <<dbVars, pending, ui, calendar>>

(***************************************************************************)
(* The operations that issue more than one request, request by request.    *)
(* The actions above run each operation alone; the actions below stop      *)
(* between the two requests, so that other operations can take steps       *)
(* there. A readwrite IndexedDB transaction is the only writer of its      *)
(* store from its creation to its completion: operations on that store     *)
(* that are called meanwhile wait for it.                                  *)
(***************************************************************************)
\* a store with no transaction open on it
LockedNever(store) == FALSE

\* db.transaction([store], 'readwrite') is open with a request outstanding
Locked(store) == \E p \in pending : p.tx = store

\* updateTransaction up to getRequest.onsuccess: the record is read, merged
\* and handed to store.put on the same transaction
UpdateTransactionGet(id, updates) ==
    /\ ~Locked(StoreName)
    /\ call' = [op |-> "updateTransaction", id |-> id, arg |-> updates]
    /\ IF ~db
       THEN /\ outcome' = Rejected(NotInitialized)
            /\ UNCHANGED pending
       ELSE IF id \notin Keys(transactions)
       THEN /\ outcome' = Rejected(NotFound)
            /\ UNCHANGED pending
       ELSE /\ outcome' = [status |-> "none"]
            /\ pending' = pending \cup
                  {[op |-> "updateTransaction", tx |-> StoreName, id |-> id,
                    existing |-> transactions[id],
                    record |-> Updated(transactions[id], updates, clock)]}
    /\ UNCHANGED <<db, version, stores, transactions, categories, clock, genCount>>
    /\ UNCHANGED <<ui, calendar, worker>>

\* putRequest.onsuccess of updateTransaction
UpdateTransactionPut(p) ==
    /\ p.op = "updateTransaction"
    /\ transactions' = PutRecord(transactions, p.record)
    /\ call' = [op |-> "updateTransaction", id |-> p.id, step |-> "put"]
    /\ outcome' = Resolved(p.record)
    /\ pending' = pending \ {p}
    /\ UNCHANGED <<db, version, stores, categories, clock, genCount>>
    /\ UNCHANGED <<ui, calendar, worker>>

\* updateCategory up to getReq.onsuccess
UpdateCategoryGet(id, updates) ==
    /\ ~Locked(CategoriesStore)
    /\ call' = [op |-> "updateCategory", id |-> id, arg |-> updates]
    /\ IF ~db
       THEN /\ outcome' = Rejected(NotInitialized)
            /\ UNCHANGED pending
       ELSE IF id \notin Keys(categories)
       THEN /\ outcome' = Rejected(NotFound)
            /\ UNCHANGED pending
       ELSE /\ outcome' = [status |-> "none"]
            /\ pending' = pending \cup
                  {[op |-> "updateCategory", tx |-> CategoriesStore, id |-> id,
                    existing |-> categories[id],
                    record |-> Updated(categories[id], updates, clock)]}
    /\ UNCHANGED <<db, version, stores, transactions, categories, clock, genCount>>
    /\ UNCHANGED <<ui, calendar, worker>>

\* putReq.onsuccess / putReq.onerror of updateCategory
UpdateCategoryPut(p) ==
    /\ p.op = "updateCategory"
    /\ call' = [op |-> "updateCategory", id |-> p.id, step |-> "put"]
    /\ IF CanPut(categories, CatUnique, p.record)
       THEN /\ categories' = PutRecord(categories, p.record)
            /\ outcome' = Resolved(p.record)
       ELSE /\ outcome' = Rejected(ConstraintError)
            /\ UNCHANGED categories
    /\ pending' = pending \ {p}
    /\ UNCHANGED <<db, version, stores, transactions, clock, genCount>>
    /\ UNCHANGED <<ui, calendar, worker>>

\* deleteCategory up to the callback of getTransactionsByCategory(id): the
\* usage is read in a readonly transaction on the transaction store, and
\* when it is empty a readwrite transaction on the category store is
\* opened and store.delete(id) is handed to it
DeleteCategoryCheck(id) ==
    /\ ~Locked(CategoriesStore)
    /\ call' = [op |-> "deleteCategory", id |-> id]
    /\ IF ~db
       THEN /\ outcome' = Rejected(NotInitialized)
            /\ UNCHANGED pending
       ELSE IF InUse(transactions, stores[StoreName], id) > 0
       THEN /\ outcome' = RejectedCount(CategoryInUse, InUse(transactions, stores[StoreName], id))
            /\ UNCHANGED pending
       ELSE /\ outcome' = [status |-> "none"]
            /\ pending' = pending \cup
                  {[op |-> "deleteCategory", tx |-> CategoriesStore, id |-> id]}
    /\ UNCHANGED <<db, version, stores, transactions, categories, clock, genCount>>
    /\ UNCHANGED <<ui, calendar, worker>>

\* a delete request that looks at the usage again before it removes
DeleteCategoryRecheck(p) ==
    /\ p.op = "deleteCategory"
    /\ call' = [op |-> "deleteCategory", id |-> p.id, step |-> "delete"]
    /\ IF InUse(transactions, stores[StoreName], p.id) > 0
       THEN /\ outcome' = RejectedCount(CategoryInUse, InUse(transactions, stores[StoreName], p.id))
            /\ UNCHANGED categories
       ELSE /\ categories' = DeleteKey(categories, p.id)
            /\ outcome' = Resolved(TRUE)
    /\ pending' = pending \ {p}
    /\ UNCHANGED <<db, version, stores, transactions, clock, genCount>>
    /\ UNCHANGED <<ui, calendar, worker>>

\* req.onsuccess of deleteCategory's store.delete(id)
DeleteCategoryDelete(p) ==
    /\ p.op = "deleteCategory"
    /\ call' = [op |-> "deleteCategory", id |-> p.id, step |-> "delete"]
    /\ categories' = DeleteKey(categories, p.id)
    /\ outcome' = Resolved(TRUE)
    /\ pending' = pending \ {p}
    /\ UNCHANGED <<db, version, stores, transactions, clock, genCount>>
    /\ UNCHANGED <<ui, calendar, worker>>

\* the loop of initDefaultCategories: addCategory on each default, a
\* failure logged and skipped
RECURSIVE SeedEach(_, _, _, _)
SeedEach(defaults, i, cats, now) ==
    IF i > Len(defaults) THEN cats
    ELSE SeedEach(defaults, i + 1,
                  AddCategoryEffect(cats, defaults[i], "", now, now).cats, now)

\* initDefaultCategories without the check that no category is stored
InitDefaultCategoriesAlways ==
    /\ call' = [op |-> "initDefaultCategories"]
    /\ outcome' = Resolved(Undefined)
    /\ categories' = IF db
                     THEN SeedEach(DefaultCategories(clock), 1, categories, clock)
                     ELSE categories
    /\ UNCHANGED <<db, version, stores, transactions, clock, genCount>>

\* initDefaultCategories(): every error is caught and logged
InitDefaultCategories ==
    /\ call' = [op |-> "initDefaultCategories"]
    /\ outcome' = Resolved(Undefined)
    /\ categories' = IF db /\ Keys(categories) = {}
                     THEN SeedEach(DefaultCategories(clock), 1, categories, clock)
                     ELSE categories
    /\ UNCHANGED <<db, version, stores, transactions, clock, genCount>>

(***************************************************************************)
(* Arguments of the calls: small sets, with and without the optional       *)
(* fields, with empty (falsy) values, and with colliding ids.              *)
(***************************************************************************)
Venta == <<"V", "e", "n", "t", "a">>
Repuesto == <<"R", "e", "p", "u", "e", "s", "t", "o">>

Income == [type |-> "income", name |-> Venta, amount |-> 100, date |-> 1]
Expense == [type |-> "expense", name |-> Repuesto, amount |-> 40, date |-> 2, category |-> "ventas"]

NoFields == [f \in {} |-> 0]

TxA == Spread(Income, [id |-> "a"])
TxB == Spread(Expense, [id |-> "b", createdAt |-> 1])
TxNew == Spread(Income, [date |-> 2])

\* a timestamp later than any the clock of the model reaches
Future == MaxClock + 1

(***************************************************************************)
(* Spec: every operation of the store, on one transaction and one          *)
(* category, across page loads.                                            *)
(***************************************************************************)
Next ==
    \/ Constructor /\ UNCHANGED appVars
    \/ DbInit /\ UNCHANGED appVars
    \/ Tick /\ UNCHANGED appVars
    \/ \E T \in {TxA} : AddTransaction(T) /\ UNCHANGED appVars
    \/ GetAllTransactions /\ UNCHANGED appVars
    \/ \E id \in {"a"} : GetTransaction(id) /\ UNCHANGED appVars
    \/ \E id \in {"a"}, u \in {[amount |-> 55]} : UpdateTransaction(id, u) /\ UNCHANGED appVars
    \/ \E id \in {"a"} : DeleteTransaction(id) /\ UNCHANGED appVars
    \/ \E d1 \in 1..2, d2 \in 1..2 : GetTransactionsByDateRange(d1, d2) /\ UNCHANGED appVars
    \/ \E t \in {"income", "expense"} : GetTransactionsByType(t) /\ UNCHANGED appVars
    \/ GetStats /\ UNCHANGED appVars
    \/ \E text \in {<<"v", "E">>} : SearchTransactions(text) /\ UNCHANGED appVars
    \/ ExportData /\ UNCHANGED appVars
    \/ \E data \in {[count |-> 0], [transactions |-> Array(<<TxA>>)]} : ImportData(data) /\ UNCHANGED appVars
    \/ ClearAll /\ UNCHANGED appVars
    \/ InitDefaultCategories /\ UNCHANGED appVars
    \/ \E C \in {[id |-> "z", name |-> "Nueva", type |-> "income"]} : AddCategory(C) /\ UNCHANGED appVars
    \/ GetAllCategories /\ UNCHANGED appVars
    \/ \E t \in {"income", "both"} : GetCategoriesByType(t) /\ UNCHANGED appVars
    \/ \E id \in {"z"} : GetCategory(id) /\ UNCHANGED appVars
    \/ \E id \in {"z"}, u \in {[type |-> "expense"]} : UpdateCategory(id, u) /\ UNCHANGED appVars
    \/ \E id \in {"z"} : DeleteCategory(id) /\ UNCHANGED appVars
    \/ \E id \in {"z"} : GetTransactionsByCategory(id) /\ UNCHANGED appVars

Spec == Init /\ [][Next]_vars

(***************************************************************************)
(* Claims checked under Spec.                                              *)
(***************************************************************************)
Lifecycle == {"constructor", "init"}

C7_UpdateNotFound ==
    [][/\ \A id \in {"a"}, u \in {[amount |-> 55]} :
             (UpdateTransaction(id, u) /\ db /\ id \notin Keys(transactions)) =>
                 /\ outcome' = Rejected(NotFound)
                 /\ UNCHANGED <<version, stores, transactions, categories>>
       /\ \A id \in {"z"}, u \in {[type |-> "expense"]} :
             (UpdateCategory(id, u) /\ db /\ id \notin Keys(categories)) =>
                 /\ outcome' = Rejected(NotFound)
                 /\ UNCHANGED <<version, stores, transactions, categories>>]_vars

\* updateCategory has failed on a missing id while other categories are stored
C7_Witness ==
    /\ db
    /\ call.op = "updateCategory"
    /\ outcome = Rejected(NotFound)
    /\ call.id \notin Keys(categories)
    /\ Keys(categories) # {}

(***************************************************************************)
(* SpecTx: the transaction collection under add, get, update and delete,   *)
(* with objects that carry or lack id, createdAt and updatedAt.            *)
(***************************************************************************)
TxAddInputs ==
    {Spread(Spread(Income, i), c) :
        i \in {NoFields, [id |-> ""], [id |-> "a"]},
        c \in {NoFields, [createdAt |-> 0], [createdAt |-> 1]}}
    \cup {Spread(Expense, [id |-> "a"]), Spread(Expense, [id |-> "b", updatedAt |-> Future])}

TxUpdates == {[amount |-> 55], [category |-> "otros", updatedAt |-> 0]}

TxKeys == {"a", "b"} \cup GeneratedIds

NextTx ==
    \/ DbInit /\ UNCHANGED appVars
    \/ Tick /\ UNCHANGED appVars
    \/ \E T \in TxAddInputs : AddTransaction(T) /\ UNCHANGED appVars
    \/ \E id \in TxKeys : GetTransaction(id) /\ UNCHANGED appVars
    \/ \E id \in {"a", "b"}, u \in TxUpdates : UpdateTransaction(id, u) /\ UNCHANGED appVars
    \/ \E id \in {"a"} : DeleteTransaction(id) /\ UNCHANGED appVars

SpecTx == Init /\ [][NextTx]_vars

(***************************************************************************)
(* Claims checked under SpecTx.                                            *)
(***************************************************************************)
Assigned == {"id", "createdAt"}

\* C2: after addTransaction(T) has succeeded on an initialized store,
\* getTransaction of the id it returned yields a record equal to T in every
\* field, except that id and createdAt are assigned by the store when T did
\* not carry them (the field absent or empty); an id or createdAt that T
\* carried is stored unchanged.
C2_AddThenGet ==
    (call.op = "addTransaction" /\ outcome.status = "resolved") =>
        LET T == call.arg
            got == GetTransactionResult(outcome.value)
        IN /\ got.status = "resolved"
           /\ got.value # Undefined
           /\ DOMAIN got.value = (DOMAIN T) \cup Assigned
           /\ \A f \in (DOMAIN T) \ Assigned : got.value[f] = T[f]
           /\ got.value.id = outcome.value
           /\ IF NoId(T) THEN got.value.id \in GeneratedIds ELSE got.value.id = T.id
           /\ IF NoCreatedAt(T) THEN got.value.createdAt \in 1..clock
                                ELSE got.value.createdAt = T.createdAt

\* an object without id and createdAt has been added
C2_Witness ==
    /\ call.op = "addTransaction"
    /\ outcome.status = "resolved"
    /\ DOMAIN call.arg \cap Assigned = {}
    /\ Cardinality(Keys(transactions)) >= 2

\* C3: addTransaction(T) with an id that is already stored fails with
\* DuplicateId (the storage engine's ConstraintError), and the record stored
\* under that id and every other stored transaction stay unchanged.
C3_DuplicateId ==
    [][\A T \in TxAddInputs :
          (AddTransaction(T) /\ db /\ ~NoId(T) /\ T.id \in Keys(transactions)) =>
              /\ outcome' = Rejected(ConstraintError)
              /\ transactions' = transactions]_vars

\* an add was refused under an id whose stored record differs from the argument
C3_Witness ==
    /\ call.op = "addTransaction"
    /\ outcome = Rejected(ConstraintError)
    /\ transactions[call.arg.id].type # call.arg.type
    /\ Cardinality(Keys(transactions)) >= 2

\* C6 as stated: updateTransaction(id, fields) on a stored id writes back a
\* record in which every field named in fields has the new value, every other
\* field has the value it had, and updatedAt is not earlier than the previous
\* updatedAt.
C6_UpdateAsStated ==
    [][\A id \in {"a", "b"}, u \in TxUpdates :
          (UpdateTransaction(id, u) /\ db /\ id \in Keys(transactions)) =>
              LET old == transactions[id]
                  new == outcome'.value
              IN /\ outcome'.status = "resolved"
                 /\ transactions'[new.id] = new
                 /\ \A f \in DOMAIN u : new[f] = u[f]
                 /\ \A f \in (DOMAIN old) \ ((DOMAIN u) \cup {"updatedAt"}) : new[f] = old[f]
                 /\ "updatedAt" \in DOMAIN old => new.updatedAt >= old.updatedAt]_vars

\* C6, amended: every field named in fields other than updatedAt has the new
\* value, every field not named has the value it had, and updatedAt is the
\* time of the update (a value given in fields is overwritten), which is not
\* earlier than the previous updatedAt unless that one lies in the future.
C6_Update ==
    [][\A id \in {"a", "b"}, u \in TxUpdates :
          (UpdateTransaction(id, u) /\ db /\ id \in Keys(transactions)) =>
              LET old == transactions[id]
                  new == outcome'.value
              IN /\ outcome'.status = "resolved"
                 /\ transactions'[new.id] = new
                 /\ DOMAIN new = (DOMAIN old) \cup (DOMAIN u) \cup {"updatedAt"}
                 /\ \A f \in (DOMAIN u) \ {"updatedAt"} : new[f] = u[f]
                 /\ \A f \in (DOMAIN old) \ ((DOMAIN u) \cup {"updatedAt"}) : new[f] = old[f]
                 /\ new.updatedAt = clock
                 /\ ("updatedAt" \in DOMAIN old /\ old.updatedAt <= clock)
                        => new.updatedAt >= old.updatedAt]_vars

\* an update of the amount alone, made after the record was created
C6_Witness ==
    /\ call.op = "updateTransaction"
    /\ outcome.status = "resolved"
    /\ call.arg = [amount |-> 55]
    /\ transactions[call.id] = outcome.value
    /\ outcome.value.updatedAt > outcome.value.createdAt

(***************************************************************************)
(* SpecCat: the category collection, with transactions that reference      *)
(* categories.                                                             *)
(***************************************************************************)
CatInputs ==
    { [id |-> "ventas", name |-> "Ventas", type |-> "income"],
      [id |-> "ventas", name |-> "Nueva", type |-> "expense", createdAt |-> 1],
      [id |-> "z", name |-> "Ventas", type |-> "both"],
      [name |-> "Nueva", type |-> "income"] }

CatKeys == {"ventas", "z"}

TxCatInputs ==
    { Spread(Expense, [id |-> "a", createdAt |-> 1]),
      Spread(Expense, [id |-> "b", createdAt |-> 1, category |-> "z"]),
      Spread(Expense, [id |-> "c", createdAt |-> 1]) }

NextCat ==
    \/ DbInit /\ UNCHANGED appVars
    \/ Tick /\ UNCHANGED appVars
    \/ \E T \in TxCatInputs : AddTransaction(T) /\ UNCHANGED appVars
    \/ \E id \in {"a"} : DeleteTransaction(id) /\ UNCHANGED appVars
    \/ InitDefaultCategories /\ UNCHANGED appVars
    \/ \E C \in CatInputs : AddCategory(C) /\ UNCHANGED appVars
    \/ \E id \in CatKeys : DeleteCategory(id) /\ UNCHANGED appVars
    \/ \E id \in CatKeys : GetTransactionsByCategory(id) /\ UNCHANGED appVars

SpecCat == Init /\ [][NextCat]_vars

\* the number of stored transactions whose category is id
Referencing(id) ==
    Cardinality({k \in Keys(transactions) :
                    "category" \in DOMAIN transactions[k] /\ transactions[k].category = id})

\* another stored category has the name of C
NameTaken(C) ==
    \E k \in Keys(categories) \ {C.id} :
        "name" \in DOMAIN categories[k] /\ categories[k].name = C.name

\* C4 as stated: addCategory(C) with an id that is already stored fails with
\* DuplicateId and the category stored under that id stays unchanged.
C4_DuplicateIdAsStated ==
    [][\A C \in CatInputs :
          (AddCategory(C) /\ db /\ ~NoId(C) /\ C.id \in Keys(categories)) =>
              /\ outcome' = Rejected(ConstraintError)
              /\ categories'[C.id] = categories[C.id]]_vars

\* C4, amended: addCategory(C) with an id that is already stored falls back
\* to updateCategory(C.id, C): it succeeds with the stored category merged
\* with C (createdAt stamped anew when C has none) and stamped updatedAt,
\* every other category unchanged; it fails, with ConstraintError and the
\* collection unchanged, only when another category has the name of C.
C4_AddFallsBackToUpdate ==
    [][\A C \in CatInputs :
          (AddCategory(C) /\ db /\ ~NoId(C) /\ C.id \in Keys(categories)) =>
              IF NameTaken(C)
              THEN /\ outcome' = Rejected(ConstraintError)
                   /\ categories' = categories
              ELSE LET old == categories[C.id]
                       new == outcome'.value
                   IN /\ outcome'.status = "resolved"
                      /\ categories' = [categories EXCEPT ![C.id] = new]
                      /\ DOMAIN new = (DOMAIN old) \cup (DOMAIN C) \cup {"createdAt", "updatedAt"}
                      /\ \A f \in DOMAIN C : new[f] = C[f]
                      /\ \A f \in (DOMAIN old) \ ((DOMAIN C) \cup {"createdAt", "updatedAt"}) :
                            new[f] = old[f]
                      /\ "createdAt" \notin DOMAIN C => new.createdAt = clock
                      /\ new.updatedAt \in clock..clock']_vars

\* an add under a stored id has succeeded by updating the stored category
C4_Witness ==
    /\ call.op = "addCategory"
    /\ outcome.status = "resolved"
    /\ ~NoId(call.arg)
    /\ "updatedAt" \in DOMAIN categories[call.arg.id]
    /\ "icon" \in DOMAIN categories[call.arg.id]
    /\ categories[call.arg.id].name = "Nueva"

\* C5: with no concurrent operations, deleteCategory(c) fails with
\* CategoryInUse, carrying the number of referencing transactions, and deletes
\* nothing if and only if at least one stored transaction has category c;
\* otherwise it succeeds and category c is absent afterwards.
C5_DeleteCategory ==
    [][\A c \in CatKeys :
          (DeleteCategory(c) /\ db) =>
              IF Referencing(c) >= 1
              THEN /\ outcome' = RejectedCount(CategoryInUse, Referencing(c))
                   /\ categories' = categories
              ELSE /\ outcome' = Resolved(TRUE)
                   /\ c \notin Keys(categories')
                   /\ \A k \in Keys(categories) \ {c} :
                         k \in Keys(categories') /\ categories'[k] = categories[k]]_vars

\* the delete of a stored category was refused because two transactions use it
C5_Witness ==
    /\ call.op = "deleteCategory"
    /\ outcome = RejectedCount(CategoryInUse, 2)
    /\ call.id \in Keys(categories)

(***************************************************************************)
(* SpecImport: export and import of the transaction collection.  An import *)
(* takes a malformed payload, a list of up to MaxImport items (with        *)
(* repeated ids, with and without id), or the snapshot just exported.  An  *)
(* update between two imports empties the createdAt or the id of a record. *)
(***************************************************************************)
ImportItems ==
    { Spread(Expense, [id |-> "a", createdAt |-> 1]),
      Income }

ItemLists == UNION {[1..n -> ImportItems] : n \in 0..MaxImport}

Malformed ==
    { [count |-> 0],
      [count |-> 0, transactions |-> [kind |-> "null"]],
      [count |-> 1, transactions |-> [kind |-> "object"]] }

\* the snapshot, when the call that just settled was exportData
Exported == IF call.op = "exportData" /\ outcome.status = "resolved" THEN {outcome.value} ELSE {}

NextImport ==
    \/ DbInit /\ UNCHANGED appVars
    \/ Tick /\ UNCHANGED appVars
    \/ \E u \in {[createdAt |-> 0], [id |-> ""]} : UpdateTransaction("a", u) /\ UNCHANGED appVars
    \/ ExportData /\ UNCHANGED appVars
    \/ \E data \in Malformed \cup {[transactions |-> Array(l)] : l \in ItemLists} \cup Exported :
          ImportData(data) /\ UNCHANGED appVars

SpecImport == Init /\ [][NextImport]_vars

\* C8: importData(data) in which data.transactions is missing or is not an
\* array fails with InvalidFormat and leaves the stored transactions exactly
\* as they were.
C8_InvalidFormat ==
    [][\A data \in Malformed :
          ImportData(data) =>
              /\ outcome' = Rejected(InvalidFormat)
              /\ transactions' = transactions]_vars

\* a payload whose transactions is not an array was refused over stored data
C8_Witness ==
    /\ db
    /\ call.op = "importData"
    /\ outcome = Rejected(InvalidFormat)
    /\ "transactions" \in DOMAIN call.arg
    /\ Keys(transactions) # {}

\* the stored record r is the item T, with id and createdAt assigned when T
\* has none
StoredAs(r, T) ==
    /\ DOMAIN r = (DOMAIN T) \cup Assigned
    /\ \A f \in (DOMAIN T) \ Assigned : r[f] = T[f]
    /\ ~NoId(T) => r.id = T.id
    /\ ~NoCreatedAt(T) => r.createdAt = T.createdAt

\* the first item whose id repeats the id of an earlier item; 0 when none
Repeats(l, i) == ~NoId(l[i]) /\ \E j \in 1..(i - 1) : ~NoId(l[j]) /\ l[j].id = l[i].id
FirstRepeat(l) ==
    IF \E i \in 1..Len(l) : Repeats(l, i)
    THEN CHOOSE i \in 1..Len(l) : Repeats(l, i) /\ \A j \in 1..(i - 1) : ~Repeats(l, j)
    ELSE 0

\* C9: when the insertion of the Nth record of an import payload fails
\* (its id repeats the id of an earlier record of the payload), importData
\* fails, and the store then holds exactly the first N-1 records of the
\* payload and none of the transactions it held before.
C9_PartialImport ==
    [][\A l \in ItemLists :
          (ImportData([transactions |-> Array(l)]) /\ db /\ FirstRepeat(l) # 0) =>
              LET N == FirstRepeat(l)
              IN /\ outcome'.status = "rejected"
                 /\ Cardinality(Keys(transactions')) = N - 1
                 /\ \A i \in 1..(N - 1) : \E k \in Keys(transactions') : StoredAs(transactions'[k], l[i])
                 /\ \A k \in Keys(transactions') : \E i \in 1..(N - 1) : StoredAs(transactions'[k], l[i])]_vars

\* an import has failed on its third record
C9_Witness ==
    /\ call.op = "importData"
    /\ outcome = Rejected(ConstraintError)
    /\ FirstRepeat(call.arg.transactions.items) = 3
    /\ Cardinality(Keys(transactions)) = 2

\* C10 as stated: for every reachable content of the transaction collection,
\* importData(exportData()) succeeds, returns the number of stored
\* transactions and leaves an equal collection; the exported count is the
\* length of the exported list.
C10_RoundTripAsStated ==
    [][(call.op = "exportData" /\ outcome.status = "resolved" /\ ImportData(outcome.value)) =>
          /\ outcome.value.count = Len(outcome.value.transactions.items)
          /\ outcome' = Resolved(Cardinality(Keys(transactions)))
          /\ transactions' = transactions]_vars

\* C10, amended: the same, for every content of the transaction collection
\* in which each record has a non-empty id and a non-empty createdAt.
C10_RoundTrip ==
    [][(/\ call.op = "exportData"
        /\ outcome.status = "resolved"
        /\ ImportData(outcome.value)
        /\ \A k \in Keys(transactions) : ~NoId(transactions[k]) /\ ~NoCreatedAt(transactions[k])) =>
          /\ outcome.value.count = Len(outcome.value.transactions.items)
          /\ outcome' = Resolved(Cardinality(Keys(transactions)))
          /\ transactions' = transactions]_vars

\* a snapshot of two or more records was imported back at a later time
C10_Witness ==
    /\ call.op = "importData"
    /\ "exportedAt" \in DOMAIN call.arg
    /\ outcome.status = "resolved"
    /\ outcome.value >= 2
    /\ call.arg.exportedAt < clock
    /\ \A k \in Keys(transactions) : transactions[k].createdAt < clock


(***************************************************************************)
(* SpecList: the queries and the aggregate over the transaction            *)
(* collection.  The stored transactions differ in date, type and amount;   *)
(* two share a date, and one has a type that is neither income nor         *)
(* expense (the store does not validate type).                             *)
(***************************************************************************)
ListInputs ==
    { [id |-> "a", type |-> "income", name |-> Venta, amount |-> 100, date |-> 1, createdAt |-> 1],
      [id |-> "b", type |-> "expense", name |-> Repuesto, amount |-> 40, date |-> 2, createdAt |-> 1],
      [id |-> "c", type |-> "income", name |-> Venta, amount |-> 7, date |-> 2, createdAt |-> 1],
      [id |-> "z", type |-> "transfer", name |-> Venta, amount |-> 5, date |-> 3, createdAt |-> 1] }

ListKeys == {"a", "b", "c", "g1"}

ListDates == {1, 2, 3}

NextList ==
    \/ DbInit /\ UNCHANGED appVars
    \/ \E T \in ListInputs : AddTransaction(T) /\ UNCHANGED appVars
    \/ \E id \in ListKeys : DeleteTransaction(id) /\ UNCHANGED appVars
    \/ GetAllTransactions /\ UNCHANGED appVars
    \/ GetStats /\ UNCHANGED appVars
    \/ \E d1 \in ListDates, d2 \in ListDates : GetTransactionsByDateRange(d1, d2) /\ UNCHANGED appVars

SpecList == Init /\ [][NextList]_vars

\* C11: after N successful addTransaction calls with pairwise distinct ids
\* and M successful deleteTransaction calls on ids stored at the time of the
\* call, getAllTransactions returns exactly N-M records.  Stated step by
\* step from the empty collection: a successful add makes the collection one
\* record larger, a delete of a stored id succeeds and makes it one record
\* smaller, and getAllTransactions returns as many records as are stored.
C11_AddsMinusDeletes ==
    [][/\ \A T \in ListInputs :
             (AddTransaction(T) /\ outcome'.status = "resolved") =>
                 Cardinality(Keys(transactions')) = Cardinality(Keys(transactions)) + 1
       /\ \A id \in ListKeys :
             (DeleteTransaction(id) /\ db /\ id \in Keys(transactions)) =>
                 /\ outcome' = Resolved(TRUE)
                 /\ Cardinality(Keys(transactions')) = Cardinality(Keys(transactions)) - 1
       /\ (GetAllTransactions /\ db) =>
                 /\ outcome'.status = "resolved"
                 /\ Len(outcome'.value) = Cardinality(Keys(transactions))]_vars

\* getAllTransactions has returned the two records that are stored
C11_Witness ==
    /\ call.op = "getAllTransactions"
    /\ outcome.status = "resolved"
    /\ Len(outcome.value) = 2
    /\ Keys(transactions) = {"a", "c"}


(***************************************************************************)
(* SpecNames: the category collection under seeding, add, update (with     *)
(* renames), delete and the query by type.                                 *)
(***************************************************************************)
CatUpdates == { [name |-> "Ventas"], [name |-> "Nueva", type |-> "both"] }

CatTypes == {"income", "expense", "both"}

NextNames ==
    \/ DbInit /\ UNCHANGED appVars
    \/ InitDefaultCategories /\ UNCHANGED appVars
    \/ \E C \in CatInputs : AddCategory(C) /\ UNCHANGED appVars
    \/ \E id \in CatKeys, u \in CatUpdates : UpdateCategory(id, u) /\ UNCHANGED appVars
    \/ \E id \in CatKeys : DeleteCategory(id) /\ UNCHANGED appVars
    \/ \E t \in CatTypes : GetCategoriesByType(t) /\ UNCHANGED appVars

SpecNames == Init /\ [][NextNames]_vars

\* a stored category other than the one C names has the name of C
Collides(C) ==
    \E k \in Keys(categories) :
        /\ NoId(C) \/ k # C.id
        /\ "name" \in DOMAIN categories[k]
        /\ categories[k].name = C.name

\* C12: addCategory(C) where C.name is the name of a stored category A and
\* C.id differs from A.id fails, whether or not C.id is itself stored, and
\* leaves every stored category and their number unchanged.
C12_NameCollision ==
    [][\A C \in CatInputs :
          (AddCategory(C) /\ db /\ Collides(C)) =>
              /\ outcome' = IF ~NoId(C) /\ C.id \in Keys(categories)
                            THEN Rejected(ConstraintError)
                            ELSE Rejected(NotFound)
              /\ categories' = categories]_vars

\* an add was refused whose id is stored and whose name another category has
C12_Witness ==
    /\ call.op = "addCategory"
    /\ outcome = Rejected(ConstraintError)
    /\ ~NoId(call.arg)
    /\ call.arg.id \in Keys(categories)
    /\ Collides(call.arg)
    /\ categories[call.arg.id].name # call.arg.name


\* C13: in every state reached by addCategory, updateCategory (renames
\* included), deleteCategory and default-category seeding, no two stored
\* categories have the same name, and no two have the same id (each is
\* stored under its own id).
C13_UniqueNames ==
    /\ \A k1 \in Keys(categories), k2 \in Keys(categories) :
          (/\ k1 # k2
           /\ "name" \in DOMAIN categories[k1]
           /\ "name" \in DOMAIN categories[k2]) => categories[k1].name # categories[k2].name
    /\ \A k \in Keys(categories) : categories[k].id = k

\* a stored category has been renamed next to the ten defaults
C13_Witness ==
    /\ call.op = "updateCategory"
    /\ outcome.status = "resolved"
    /\ "name" \in DOMAIN call.arg
    /\ categories[call.id].name = call.arg.name
    /\ Cardinality(Keys(categories)) >= 10

\* C14: default-category seeding on an initialized store with no category
\* ends with exactly ten categories, nine typed income or expense and one
\* typed both, with distinct ids and names; seeding on a store that holds a
\* category changes nothing (so seeding twice gives what seeding once gives).
C14_Seeding ==
    [][(InitDefaultCategories /\ db) =>
          IF Keys(categories) = {}
          THEN /\ Cardinality(Keys(categories')) = 10
               /\ Cardinality({k \in Keys(categories') : categories'[k].type \in {"income", "expense"}}) = 9
               /\ Cardinality({k \in Keys(categories') : categories'[k].type = "both"}) = 1
               /\ Cardinality({categories'[k].name : k \in Keys(categories')}) = 10
               /\ \A k \in Keys(categories') : categories'[k].id = k
          ELSE categories' = categories]_vars

\* seeding was called on a store that holds the ten defaults, one renamed
C14_Witness ==
    /\ call.op = "initDefaultCategories"
    /\ db
    /\ Cardinality(Keys(categories)) = 10
    /\ "ventas" \in Keys(categories)
    /\ categories["ventas"].name = "Nueva"


(***************************************************************************)
(* SpecUpgrade: storage created and filled by the version-1 program, then  *)
(* opened by the current one after a page load.  Transactions are added    *)
(* while the storage is at version 1; the query by category runs on the    *)
(* upgraded storage.                                                       *)
(***************************************************************************)
UpgradeInputs ==
    { Spread(Expense, [id |-> "a", createdAt |-> 1]),
      Spread(Income, [id |-> "b"]),
      Income }

NextUpgrade ==
    \/ ~db /\ DbInitV1 /\ UNCHANGED appVars
    \/ Constructor /\ UNCHANGED appVars
    \/ ~db /\ DbInit /\ UNCHANGED appVars
    \/ Tick /\ UNCHANGED appVars
    \/ \E T \in UpgradeInputs : version = DbVersionV1 /\ AddTransaction(T) /\ UNCHANGED appVars
    \/ \E id \in {"ventas"} : version = DbVersion /\ GetTransactionsByCategory(id) /\ UNCHANGED appVars

SpecUpgrade == Init /\ [][NextUpgrade]_vars

\* the schema of the current version
SchemaV2 ==
    [n \in {StoreName, CategoriesStore} |->
        IF n = StoreName THEN {"date", "type", "amount", "category"} ELSE {"type", "name"}]

\* the schema the version-1 program creates
SchemaV1 == [n \in {StoreName} |-> {"date", "type", "amount"}]

\* C15: init on storage with no prior schema, and init on storage that holds
\* the version-1 schema, both end with a transaction collection indexed by
\* date, type, amount and category and a category collection indexed by type
\* and by unique name, and every record stored before the upgrade is still
\* stored with unchanged fields.
C15_Upgrade ==
    [][(DbInit /\ version < DbVersion) =>
          /\ (version = 0 /\ stores = EmptyStore) \/ (version = DbVersionV1 /\ stores = SchemaV1)
          /\ outcome' = Resolved("db")
          /\ db'
          /\ version' = DbVersion
          /\ stores' = SchemaV2
          /\ "name" \in CatUnique
          /\ transactions' = transactions
          /\ categories' = categories]_vars

\* the current program has opened storage that the version-1 program filled
C15_Witness ==
    /\ call.op = "init"
    /\ outcome = Resolved("db")
    /\ version = DbVersion
    /\ stores = SchemaV2
    /\ Cardinality(Keys(transactions)) >= 2


\* the sum of the amounts of the records of seq whose type is t
RECURSIVE SumOfType(_, _)
SumOfType(seq, t) ==
    IF seq = <<>> THEN 0
    ELSE (IF Head(seq).type = t THEN Head(seq).amount ELSE 0) + SumOfType(Tail(seq), t)

\* C16: for every stored set of transactions whose types are income or
\* expense and whose amounts are positive integers, getStats returns
\* totalIncome, the sum of the amounts of the income transactions,
\* totalExpense, the sum of the amounts of the expense transactions, balance,
\* their difference, and count, the number of stored transactions.
C16_Stats ==
    [][(/\ GetStats
        /\ db
        /\ \A k \in Keys(transactions) :
              /\ transactions[k].type \in {"income", "expense"}
              /\ transactions[k].amount \in Nat \ {0}) =>
          LET all == GetAll(transactions)
          IN outcome' = Resolved([totalIncome |-> SumOfType(all, "income"),
                                  totalExpense |-> SumOfType(all, "expense"),
                                  balance |-> SumOfType(all, "income") - SumOfType(all, "expense"),
                                  count |-> Cardinality(Keys(transactions))])]_vars

\* the aggregate of one income of 100 and one expense of 40
C16_Witness ==
    /\ call.op = "getStats"
    /\ Cardinality(Keys(transactions)) = 2
    /\ outcome = Resolved([totalIncome |-> 100, totalExpense |-> 40, balance |-> 60, count |-> 2])

\* C17: getStats adds a transaction's amount to totalExpense only when its
\* type is expense and to totalIncome only when its type is income, for
\* every type a stored transaction can have: a transaction of any other type
\* changes count but neither total.
C17_OnlyIncomeAndExpense ==
    [][(GetStats /\ db) =>
          LET all == GetAll(transactions)
          IN /\ outcome'.status = "resolved"
             /\ outcome'.value.totalIncome = SumOfType(all, "income")
             /\ outcome'.value.totalExpense = SumOfType(all, "expense")
             /\ outcome'.value.count = Cardinality(Keys(transactions))]_vars


\* the set of the elements of a list
Elements(seq) == {seq[i] : i \in 1..Len(seq)}

\* C18: getTransactionsByDateRange(start, end) with start <= end returns
\* exactly the stored transactions whose date d satisfies start <= d <= end:
\* one dated exactly start or exactly end is included, one dated the day
\* before start or the day after end is excluded.
C18_DateRange ==
    [][\A d1 \in ListDates, d2 \in ListDates :
          (GetTransactionsByDateRange(d1, d2) /\ db /\ d1 <= d2) =>
              /\ outcome'.status = "resolved"
              /\ Elements(outcome'.value) =
                    {r \in Records(transactions) : d1 <= r.date /\ r.date <= d2}
              /\ Len(outcome'.value) = Cardinality(Elements(outcome'.value))]_vars

\* a query for one day returned the two transactions of that day, while
\* one of the day before and one of the day after are stored
C18_Witness ==
    /\ call.op = "getTransactionsByDateRange"
    /\ call.from = 2
    /\ call.to = 2
    /\ outcome.status = "resolved"
    /\ Len(outcome.value) = 2
    /\ Cardinality(Keys(transactions)) = 4

\* C19: getAllTransactions returns every stored transaction exactly once,
\* ordered by date descending: of two adjacent records of the result, the
\* earlier one's date is not before the later one's date.
C19_DateDescending ==
    [][(GetAllTransactions /\ db) =>
          /\ outcome'.status = "resolved"
          /\ Elements(outcome'.value) = Records(transactions)
          /\ Len(outcome'.value) = Cardinality(Keys(transactions))
          /\ \A i \in 1..(Len(outcome'.value) - 1) :
                outcome'.value[i].date >= outcome'.value[i + 1].date]_vars

\* the four transactions were returned, the two of equal date not in key order
C19_Witness ==
    /\ call.op = "getAllTransactions"
    /\ outcome.status = "resolved"
    /\ Len(outcome.value) = 4
    /\ outcome.value[2].id = "c"
    /\ outcome.value[3].id = "b"


\* C20 as stated: for every type t, 'both' included, getCategoriesByType(t)
\* returns exactly the stored categories whose type equals t.
C20_ExactMatchAsStated ==
    [][\A t \in CatTypes :
          (GetCategoriesByType(t) /\ db) =>
              /\ outcome'.status = "resolved"
              /\ Elements(outcome'.value) = {r \in Records(categories) : r.type = t}]_vars

\* C20, amended: for t = 'income' and t = 'expense' the query returns
\* exactly the stored categories whose type equals t (a category typed
\* 'both' is not among them); for t = 'both' it returns every stored
\* category; the result is ordered by name.
C20_ByType ==
    [][\A t \in CatTypes :
          (GetCategoriesByType(t) /\ db) =>
              /\ outcome'.status = "resolved"
              /\ Elements(outcome'.value) =
                    IF t = "both" THEN Records(categories)
                    ELSE {r \in Records(categories) : r.type = t}
              /\ Len(outcome'.value) = Cardinality(Elements(outcome'.value))
              /\ \A i \in 1..(Len(outcome'.value) - 1) :
                    NameRank(outcome'.value[i].name) < NameRank(outcome'.value[i + 1].name)]_vars

\* the query for 'both' returned the ten defaults, of which one is typed both
C20_Witness ==
    /\ call.op = "getCategoriesByType"
    /\ call.type = "both"
    /\ outcome.status = "resolved"
    /\ Len(outcome.value) = 10
    /\ Cardinality({k \in Keys(categories) : categories[k].type = "both"}) = 1


\* C29: deleteTransaction(id) for an id that is not stored succeeds and
\* leaves the store unchanged, so deleting the same id twice leaves the
\* store that deleting it once leaves.
C29_DeleteMissing ==
    [][\A id \in ListKeys :
          (DeleteTransaction(id) /\ db /\ id \notin Keys(transactions)) =>
              /\ outcome' = Resolved(TRUE)
              /\ UNCHANGED <<transactions, categories>>]_vars

\* the delete of an id that was never stored has succeeded over stored data
C29_Witness ==
    /\ call.op = "deleteTransaction"
    /\ call.id = "g1"
    /\ outcome = Resolved(TRUE)
    /\ Cardinality(Keys(transactions)) >= 2

(***************************************************************************)
(* SpecRekey: updates whose fields name an id other than the id argument.  *)
(***************************************************************************)
RekeyInputs ==
    { [id |-> "a", type |-> "income", name |-> Venta, amount |-> 100, date |-> 1, createdAt |-> 1],
      [id |-> "b", type |-> "expense", name |-> Repuesto, amount |-> 40, date |-> 2, createdAt |-> 1] }

RekeyUpdates == { [amount |-> 55], [id |-> "b", amount |-> 55], [id |-> "c"] }

NextRekey ==
    \/ DbInit /\ UNCHANGED appVars
    \/ Tick /\ UNCHANGED appVars
    \/ \E T \in RekeyInputs : AddTransaction(T) /\ UNCHANGED appVars
    \/ \E id \in {"a", "b"}, u \in RekeyUpdates : UpdateTransaction(id, u) /\ UNCHANGED appVars
    \/ \E id \in {"a"} : GetTransaction(id) /\ UNCHANGED appVars

SpecRekey == Init /\ [][NextRekey]_vars

\* C25: updateTransaction(id, fields) touches only the record stored under
\* id: for any fields, including fields with an id other than the id
\* argument, the number of stored transactions is unchanged, no record under
\* another id is created or overwritten, and the updated record is still
\* stored under id.
C25_TouchesOnlyId ==
    [][\A id \in {"a", "b"}, u \in RekeyUpdates :
          (UpdateTransaction(id, u) /\ db /\ id \in Keys(transactions)) =>
              /\ outcome'.status = "resolved"
              /\ Keys(transactions') = Keys(transactions)
              /\ \A k \in Keys(transactions) \ {id} : transactions'[k] = transactions[k]
              /\ transactions'[id] = outcome'.value]_vars


(***************************************************************************)
(* SpecConc: operations that overlap in time. updateTransaction,           *)
(* updateCategory and deleteCategory take their two requests as separate   *)
(* steps; the other writers run between them when the store is free.       *)
(***************************************************************************)
ConcInputs ==
    { [id |-> "a", type |-> "income", name |-> Venta, amount |-> 100, date |-> 1, category |-> "z"],
      [id |-> "b", type |-> "expense", name |-> Repuesto, amount |-> 40, date |-> 2] }

ConcUpdates == { [amount |-> 55], [category |-> "z"] }

ConcCats == { [id |-> "z", name |-> "Nueva", type |-> "income"] }

ConcCatUpdates == { [type |-> "expense"] }

\* a write to the transaction stored under id by an operation other than the
\* update in flight
ConcurrentWrite(id) ==
    /\ ~Locked(StoreName)
    /\ \/ \E T \in ConcInputs : T.id = id /\ AddTransaction(T)
       \/ \E u \in ConcUpdates : UpdateTransaction(id, u)
       \/ DeleteTransaction(id)
    /\ UNCHANGED appVars

NextConc ==
    \/ DbInit /\ UNCHANGED appVars
    \/ Tick /\ UNCHANGED appVars
    \/ \E id \in {"a", "b"} : ConcurrentWrite(id)
    \/ \E id \in {"a", "b"}, u \in ConcUpdates : UpdateTransactionGet(id, u)
    \/ \E p \in pending : UpdateTransactionPut(p)
    \/ \E C \in ConcCats : ~Locked(CategoriesStore) /\ AddCategory(C) /\ UNCHANGED appVars
    \/ \E id \in {"z"}, u \in ConcCatUpdates : ~Locked(CategoriesStore) /\ UpdateCategory(id, u) /\ UNCHANGED appVars
    \/ \E id \in {"z"}, u \in ConcCatUpdates : UpdateCategoryGet(id, u)
    \/ \E p \in pending : UpdateCategoryPut(p)
    \/ \E id \in {"z"} : DeleteCategoryCheck(id)
    \/ \E p \in pending : DeleteCategoryDelete(p)

SpecConc == Init /\ [][NextConc]_vars


\* C21 (as the code has it): updateTransaction and updateCategory read the
\* record and write it back in one readwrite transaction, so no write of a
\* concurrent add, update or delete falls between the two: until the
\* write-back, the stored record is the record the update read, and the
\* write-back is computed from it.
C21_ReadIsCurrent ==
    \A p \in pending :
        /\ p.op = "updateTransaction" =>
              /\ GetKey(transactions, p.id) = p.existing
              /\ \E u \in ConcUpdates, t \in 1..clock : p.record = Updated(transactions[p.id], u, t)
        /\ p.op = "updateCategory" =>
              /\ GetKey(categories, p.id) = p.existing
              /\ \E u \in ConcCatUpdates, t \in 1..clock : p.record = Updated(categories[p.id], u, t)

\* an update has read a stored record and has not yet written it back,
\* while other operations are called
C21_Witness ==
    \E p \in pending : /\ p.op = "updateTransaction"
                       /\ p.id \in Keys(transactions)
                       /\ p.record # p.existing
                       /\ Cardinality(Keys(transactions)) = 2

\* C21 as stated: update is not atomic, a write to the same id by a
\* concurrent add, update or delete can be committed between update's read
\* and its write-back.
C21_WriteFallsBetween ==
    \A p \in pending : p.op = "updateTransaction" => ENABLED ConcurrentWrite(p.id)

\* C22: deleteCategory(c) is not atomic: after its usage check found no
\* transaction of category c, an addTransaction or updateTransaction that
\* sets category c can be committed before the delete, and the delete still
\* succeeds and removes c while a stored transaction references it.
C22_DeleteIgnoresLaterUse ==
    [][\A p \in pending :
          DeleteCategoryDelete(p) =>
              /\ outcome' = Resolved(TRUE)
              /\ p.id \notin Keys(categories')
              /\ transactions' = transactions]_vars

\* the usage check found nothing, a transaction of the category was stored
\* before the delete ran, and the delete has succeeded: the category is gone
\* and a stored transaction references it
C22_Witness ==
    /\ call = [op |-> "deleteCategory", id |-> "z", step |-> "delete"]
    /\ outcome = Resolved(TRUE)
    /\ "z" \notin Keys(categories)
    /\ InUse(transactions, stores[StoreName], "z") > 0


(***************************************************************************)
(* SpecWorker: the service worker answering requests, online and offline.  *)
(***************************************************************************)
Requests ==
    { IndexHtml,
      <<"/", "css", "/", "styles", ".css">>,
      <<"/", "about", ".html">>,
      <<"/", "report", ".html", "?", "month=3">>,
      <<"/", "api", "/", "rates">>,
      <<"/", "img", "/", "logo", ".png">> }

NetworkAnswers == {"basic200", "basic404", "opaque"}

NextWorker ==
    \/ Install
    \/ \E url \in Requests, net \in NetworkAnswers : FetchEvent(url, net)
    \/ \E on \in BOOLEAN : Connection(on)

SpecWorker == Init /\ [][NextWorker]_vars

\* C24 (as the code has it): when an intercepted request has no cached
\* response and its network fetch fails, the asset cache answers with the
\* cached start page /index.html if the request URL contains '.html', and
\* with no response for every other URL.
C24_FallbackForHtml ==
    [][\A url \in Requests, net \in NetworkAnswers :
          (FetchEvent(url, net) /\ url \notin worker.cache /\ ~worker.online) =>
              worker'.response =
                  IF Includes(url, <<".html">>) THEN FromCache(IndexHtml) ELSE Undefined]_vars

\* offline, a page that is not cached has been answered with the start page
C24_Witness ==
    /\ ~worker.online
    /\ worker.response = FromCache(IndexHtml)
    /\ <<"/", "about", ".html">> \notin worker.cache
    /\ <<"/", "api", "/", "rates">> \in worker.cache

\* C24 as stated: the start page is the answer for every request URL.
C24_FallbackForEveryUrl ==
    [][\A url \in Requests, net \in NetworkAnswers :
          (FetchEvent(url, net) /\ url \notin worker.cache /\ ~worker.online) =>
              worker'.response = FromCache(IndexHtml)]_vars


(***************************************************************************)
(* SpecCalendar: the calendar page opened, navigated and reloaded, in time *)
(* zones west and east of UTC, over transactions dated at month ends.      *)
(***************************************************************************)
CalendarInputs ==
    { [id |-> "a", type |-> "income", name |-> Venta, amount |-> 100, date |-> LocalDate(1, 31), createdAt |-> 1],
      [id |-> "b", type |-> "expense", name |-> Repuesto, amount |-> 40, date |-> LocalDate(2, 28), createdAt |-> 1] }

UtcOffsets == {-3, 0, 2}

NextCalendar ==
    \/ ~db /\ DbInit /\ UNCHANGED appVars
    \/ \E T \in CalendarInputs : AddTransaction(T) /\ UNCHANGED appVars
    \/ \E tz \in UtcOffsets : TimeZone(tz)
    \/ LoadCalendar
    \/ \E delta \in {-1, 1} : ClickMonth(delta)
    \/ \E l \in calendar.loads : SettleLoad(l)

SpecCalendar == Init /\ [][NextCalendar]_vars

\* the stored transactions dated within a month
InMonth(month) ==
    {r \in Records(transactions) : LocalDate(month, 1) <= r.date /\ r.date <= LocalDate(month + 1, 0)}

\* C30 as stated: for every displayed month and every UTC offset of the
\* local time zone, loadTransactionsForMonth queries from the first to the
\* last day of the month inclusive, so transactionsByDate holds exactly the
\* stored transactions dated within the displayed month.
C30_WholeMonth ==
    [][\A l \in calendar.loads :
          SettleLoad(l) =>
              LET month == calendar.instances[l.instance].currentMonth
                  byDate == calendar'.instances[l.instance].transactionsByDate
              IN /\ l.range.start = LocalDate(month, 1)
                 /\ l.range.end = LocalDate(month + 1, 0)
                 /\ UNION {Elements(byDate[d]) : d \in DOMAIN byDate} = InMonth(month)]_vars

\* C26 as stated: a click on the next-month (previous-month) control, with
\* no load pending, leads to exactly one month change being rendered, to
\* the month after (before) the month shown, however many times the
\* calendar page has been opened.
C26_OneMonthPerClick ==
    [][\A delta \in {-1, 1} :
          (ClickMonth(delta) /\ calendar.loads = {} /\ calendar.shown # 0) =>
              \E l \in calendar'.loads :
                  /\ calendar'.loads = {l}
                  /\ calendar'.instances[l.instance].currentMonth = calendar.shown + delta]_vars


(***************************************************************************)
(* SpecUI: the application from page load on: App.init, then the user at   *)
(* the transaction form and the transaction list.                          *)
(***************************************************************************)
LongName == [i \in 1..(MaxNameLength + 1) |-> "x"]

NameInputs == { <<" ", " ">>, <<" ">> \o Venta \o <<" ">>, LongName }

AmountInputs == { <<"0">>, <<"-", "5">>, <<"1", "2", "k", "g">>, <<"7">> }

UiIds == {GenIds[i] : i \in 1..MaxGen}

NextUI ==
    \/ PageLoad
    \/ AppInitDatabase
    \/ AppInitFails
    \/ UIInit
    \/ CheckFirstTime
    \/ \E text \in NameInputs : InputName(text)
    \/ \E text \in AmountInputs : InputAmount(text)
    \/ HandleFormSubmit
    \/ SubmitSettled
    \/ \E id \in UiIds : EditTransaction(id)
    \/ EditSettled
    \/ \E id \in UiIds : DeleteClicked(id)
    \/ DeleteSettled
    \/ Cancel

SpecUI == Init /\ [][NextUI]_vars


\* a form whose name or amount fails validation, in the words of the rule:
\* a name that is empty after trimming or longer than 50 characters, an
\* amount that is no number or not greater than 0
FailsValidation(form) ==
    \/ Trim(form.name) = <<>>
    \/ Len(Trim(form.name)) > 50
    \/ ParseFloat(form.amount).nan
    \/ ParseFloat(form.amount).value <= 0

\* C23: every addTransaction or updateTransaction issued by the form-submit
\* handler carries an amount greater than 0 and a non-empty trimmed name of
\* at most 50 characters; a submit whose name or amount fails validation
\* issues no store operation and leaves the store unchanged.
C23_ValidatedSubmit ==
    [][HandleFormSubmit =>
          IF FailsValidation(ui.form)
          THEN UNCHANGED dbVars
          ELSE /\ call'.op \in {"addTransaction", "updateTransaction"}
               /\ call'.arg.amount > 0
               /\ call'.arg.name # <<>>
               /\ call'.arg.name = Trim(call'.arg.name)
               /\ Len(call'.arg.name) <= 50]_vars

\* a submit with a padded name and an amount text with a unit has stored the
\* trimmed name and the number, and its handler still waits
C23_Witness ==
    /\ ui.tasks # <<>>
    /\ Head(ui.tasks).handler = "submit"
    /\ ui.form.name = <<" ">> \o Venta \o <<" ">>
    /\ ui.form.amount = <<"1", "2", "k", "g">>
    /\ call.op = "addTransaction"
    /\ call.arg.name = Venta
    /\ call.arg.amount = 12
    /\ outcome = Resolved(call.arg.id)

\* C27: in every UI state editingId is null with an empty hidden id field,
\* or equal to the hidden id field; a form submit in edit mode calls
\* updateTransaction on exactly the edited id with a payload whose id equals
\* it and does not change the number of stored transactions; editingId is
\* null again after a successful submit, a cancel, or the deletion of the
\* edited transaction.
C27_EditingId ==
    /\ [](\/ ui.editingId = NullId /\ ui.form.transactionId = ""
          \/ ui.editingId = ui.form.transactionId)
    /\ [][/\ (HandleFormSubmit /\ ui.editingId # NullId /\ ~FailsValidation(ui.form)) =>
                /\ call'.op = "updateTransaction"
                /\ call'.id = ui.editingId
                /\ call'.arg.id = ui.editingId
                /\ Cardinality(Keys(transactions')) = Cardinality(Keys(transactions))
          /\ (SubmitSettled /\ Head(ui.tasks).ok) => ui'.editingId = NullId
          /\ Cancel => ui'.editingId = NullId
          /\ (DeleteSettled /\ Head(ui.tasks).id = ui.editingId) => ui'.editingId = NullId]_vars

\* a submit in edit mode has updated the edited transaction with the
\* changed amount, and its handler waits for the settlement
C27_Witness ==
    /\ ui.editingId = "g1"
    /\ ui.form.transactionId = "g1"
    /\ ui.tasks # <<>>
    /\ Head(ui.tasks) = [handler |-> "submit", ok |-> TRUE]
    /\ call.op = "updateTransaction"
    /\ call.id = "g1"
    /\ call.arg.amount = 7
    /\ transactions["g1"].amount = 7

\* a store operation of the application: every operation but the
\* construction and init
StoreOperation == call.op \notin {"constructor", "init"}

\* C28: during start-up no store operation is issued before Database.init
\* has resolved: UI initialisation and the first-time check run only after
\* init succeeded; if init fails neither runs, no store operation is issued
\* and the fatal-error screen is shown.
C28_InitFirst ==
    /\ StoreOperation => db /\ ui.app \in {"interface", "started"}
    /\ ui.listening => db /\ ui.app \in {"interface", "started"}
    /\ ui.app \in {"database", "interface", "started"} => db
    /\ (call.op = "init" /\ outcome.status = "rejected") => ui.app = "fatal"
    /\ ui.app = "fatal" => /\ ~db
                           /\ ~ui.listening
                           /\ call.op = "init"
                           /\ outcome.status = "rejected"

\* init failed on a page load over stored data, and the fatal error is shown
C28_Witness ==
    /\ ui.app = "fatal"
    /\ Keys(transactions) # {}
    /\ outcome = Rejected("OpenError")

====
